---- MODULE Spec2Model ----
(***************************************************************************)
(* The token-indexed search engine of mfnb.labeldata (class DB): index     *)
(* construction, persistence of the index and ranked search.               *)
(*                                                                         *)
(* Text is a sequence of character codes: 0 is a white space, 1..26 the    *)
(* lower-case letters a..z, 101..126 the upper-case letters, 201..226 the  *)
(* accented lower-case letters.  A record is [ID, text]; a database is the *)
(* sequence of its records in insertion order, and a record object is      *)
(* named by its position in that sequence.                                 *)
(*                                                                         *)
(* Scores are exact rationals <<numerator, denominator>> in lowest terms   *)
(* (the program computes them in binary floating point).  The weights of   *)
(* method 2 are tf x idf in hundredths, without the row norm of the        *)
(* vectorizer: a positive factor per record, which cancels in the          *)
(* normalised score of a record.                                           *)
(*                                                                         *)
(* The loops of the scripts sort_labels and match_collecting_events, the   *)
(* construction and the subsetting of a DB, and the comparison of date     *)
(* ranges (mfnb.date.DateRange) are modelled on top of it.                 *)
(***************************************************************************)
EXTENDS Integers, Sequences, FiniteSets, TLC

VARIABLES
    db,           \* DB._dict: the records, in insertion order
    index,        \* DB._index, and whether the attribute exists
    parameters,   \* DB._parameters
    max_scores,   \* DB._max_scores
    file,         \* the JSON document of the last dump_index
    built,        \* history: the index in memory is the product of a completed make_index
    completed,    \* history: some make_index or load_index call has returned normally
    origin,       \* history: the index that was dumped into the document last loaded
    lastOp,       \* the call in progress: its name,
    lastError,    \*   the exception it raised ("" for none),
    lastArgs,     \*   its arguments,
    lastResult,   \*   the list it returned,
    filterCalls,  \*   the calls of filtering it made, per record,
    lastMatched,  \*   and the index tokens each query token matched
    pc,           \* the script that runs and where it is ("none": no script)
    options,      \* its Options
    stdout,       \* the lines it has written on sys.stdout
    to_be_sorted, \* sort_labels: the labels not yet in a group
    group_no,     \* sort_labels: i, the number of the last group
    pending,      \* match_collecting_events: the labels not yet read from the input
    unmatched,    \* match_collecting_events: unmatched_labels and unmatched_ce
    date_index    \* CollectingEventDB._date_index

\* The variables of the scripts sort_labels and match_collecting_events.
scriptVars == <<pc, options, stdout, to_be_sorted, group_no, pending, unmatched, date_index>>

vars == <<db, index, parameters, max_scores, file, built, completed, origin,
          lastOp, lastError, lastArgs, lastResult, filterCalls, lastMatched,
          pc, options, stdout, to_be_sorted, group_no, pending, unmatched, date_index>>

\* The longest query, in words, that the model submits.
MaxQueryLen == 2

-----------------------------------------------------------------------------
(* Characters and strings *)

IsWordChar(c) == c > 0

\* A function on 1..n, as the tuple of its values.
AsSeq(f) == f \o <<>>

lowerChar(c) == IF c > 100 /\ c < 200 THEN c - 100 ELSE c

lower(s) == AsSeq([i \in 1..Len(s) |-> lowerChar(s[i])])

stripChar(c) == IF c > 200 THEN c - 200 ELSE c

strip_accents(s) == AsSeq([i \in 1..Len(s) |-> stripChar(s[i])])

Flagged(p) == p[2]

\* The positions i of flags with flags[i] true, in increasing order.
Positions(flags) ==
    LET sel == SelectSeq([i \in 1..Len(flags) |-> <<i, flags[i]>>], Flagged)
    IN  AsSeq([k \in 1..Len(sel) |-> sel[k][1]])

\* s.strip()
StripWS(s) ==
    LET ps == Positions([i \in 1..Len(s) |-> IsWordChar(s[i])])
    IN  IF ps = <<>> THEN <<>> ELSE SubSeq(s, ps[1], ps[Len(ps)])

\* WS_pattern.sub(" ", s): every run of white spaces becomes one space.
CollapseWS(s) ==
    LET Keep(i) == IsWordChar(s[i]) \/ i = 1 \/ IsWordChar(s[i - 1])
        ps == Positions([i \in 1..Len(s) |-> Keep(i)])
    IN  AsSeq([k \in 1..Len(ps) |-> IF IsWordChar(s[ps[k]]) THEN s[ps[k]] ELSE 0])

smoothen_white_spaces(s) == CollapseWS(StripWS(s))

simplify_str(s) == lower(strip_accents(smoothen_white_spaces(s)))

Min2(a, b) == IF a <= b THEN a ELSE b

Max2(a, b) == IF a >= b THEN a ELSE b

\* The anti-diagonal k of the dynamic programme (the cells D[i][k - i], by
\* increasing i), from the two anti-diagonals before it.
LevDiagonal(a, b, k, d1, d2) ==
    LET lo  == Max2(0, k - Len(b))
        hi  == Min2(Len(a), k)
        lo1 == Max2(0, k - 1 - Len(b))
        lo2 == Max2(0, k - 2 - Len(b))
        Cell(i) ==
            IF i = 0 THEN k
            ELSE IF i = k THEN k
            ELSE Min2(Min2(d1[i - lo1] + 1, d1[i - lo1 + 1] + 1),
                      d2[i - lo2] + (IF a[i] = b[k - i] THEN 0 ELSE 1))
    IN  AsSeq([t \in 1..(hi - lo + 1) |-> Cell(lo + t - 1)])

\* The anti-diagonals hi and hi - 1, from the anti-diagonals lo - 1 and lo - 2.
RECURSIVE LevDiagonals(_, _, _, _, _)
LevDiagonals(a, b, lo, hi, ds) ==
    IF lo > hi THEN ds
    ELSE IF lo = hi THEN << LevDiagonal(a, b, lo, ds[1], ds[2]), ds[1] >>
    ELSE LET mid  == (lo + hi) \div 2
             half == LevDiagonals(a, b, lo, mid, ds)
         IN  IF Len(half[1]) > 0 THEN LevDiagonals(a, b, mid + 1, hi, half) ELSE half

\* leven.levenshtein: the edit distance (insertions, deletions, substitutions).
levenshtein(a, b) ==
    LevDiagonals(a, b, 1, Len(a) + Len(b), << <<0>>, <<>> >>)[1][1]

-----------------------------------------------------------------------------
(* Rationals *)

RECURSIVE Gcd(_, _)
Gcd(a, b) == IF b = 0 THEN a ELSE Gcd(b, a % b)

Frac(n, d) == LET g == Gcd(n, d) IN IF g = 0 THEN <<0, 1>> ELSE <<n \div g, d \div g>>

FracAdd(x, y) == Frac(x[1] * y[2] + y[1] * x[2], x[2] * y[2])

FracMul(x, y) ==
    LET g1 == Gcd(x[1], y[2])
        g2 == Gcd(y[1], x[2])
        a  == IF g1 = 0 THEN 0 ELSE x[1] \div g1
        d  == IF g1 = 0 THEN 1 ELSE y[2] \div g1
        c  == IF g2 = 0 THEN 0 ELSE y[1] \div g2
        b  == IF g2 = 0 THEN 1 ELSE x[2] \div g2
    IN  Frac(a * c, b * d)

\* x < y for non-negative rationals, by continued fractions (no product of
\* the two denominators is formed).
RECURSIVE FracLess(_, _)
FracLess(x, y) ==
    LET qx == x[1] \div x[2]
        qy == y[1] \div y[2]
        rx == x[1] % x[2]
        ry == y[1] % y[2]
    IN  IF qx # qy THEN qx < qy
        ELSE IF ry = 0 THEN FALSE
        ELSE IF rx = 0 THEN TRUE
        ELSE FracLess(<<y[2], ry>>, <<x[2], rx>>)

FracLeq(x, y) == ~FracLess(y, x)

-----------------------------------------------------------------------------
(* Tokens *)

\* The pattern \b\w{min_len-1}\w+\b, kept as the number of leading \w.
get_word_tokenize_pattern(min_len) == [min_char |-> min_len - 1]

\* The maximal runs of word characters of s, in order.
WordRuns(s) ==
    LET Starts(i) == IsWordChar(s[i]) /\ (i = 1 \/ ~IsWordChar(s[i - 1]))
        Ends(i)   == IsWordChar(s[i]) /\ (i = Len(s) \/ ~IsWordChar(s[i + 1]))
        from == Positions([i \in 1..Len(s) |-> Starts(i)])
        to   == Positions([i \in 1..Len(s) |-> Ends(i)])
    IN  AsSeq([k \in 1..Len(from) |-> SubSeq(s, from[k], to[k])])

RECURSIVE KeepLong(_, _)
KeepLong(ws, n) ==
    IF ws = <<>> THEN <<>>
    ELSE IF Len(Head(ws)) >= n THEN <<Head(ws)>> \o KeepLong(Tail(ws), n)
    ELSE KeepLong(Tail(ws), n)

\* Every maximal run of word characters that the pattern accepts, in order.
regexp_tokenize(s, pattern) == KeepLong(WordRuns(s), pattern.min_char + 1)

Range(f) == {f[i] : i \in DOMAIN f}

RECURSIVE CountIn(_, _)
CountIn(ws, t) ==
    IF ws = <<>> THEN 0
    ELSE (IF Head(ws) = t THEN 1 ELSE 0) + CountIn(Tail(ws), t)

RECURSIVE LexLess(_, _)
LexLess(a, b) ==
    IF b = <<>> THEN FALSE
    ELSE IF a = <<>> THEN TRUE
    ELSE IF a[1] # b[1] THEN a[1] < b[1]
    ELSE LexLess(Tail(a), Tail(b))

RECURSIVE SortedTokens(_)
SortedTokens(S) ==
    IF S = {} THEN <<>>
    ELSE LET m == CHOOSE x \in S : \A y \in S \ {x} : LexLess(x, y)
         IN  <<m>> \o SortedTokens(S \ {m})

-----------------------------------------------------------------------------
(* Mask *)

\* expr.sub("", s) from position i on, for an expression that is a plain
\* string: its occurrences are deleted, leftmost first, without overlap.
RECURSIVE MaskSub(_, _, _)
MaskSub(expr, s, i) ==
    LET occ == {p \in i..(Len(s) - Len(expr) + 1) : SubSeq(s, p, p + Len(expr) - 1) = expr}
    IN  IF expr = <<>> \/ occ = {} THEN SubSeq(s, i, Len(s))
        ELSE LET p == CHOOSE q \in occ : \A r \in occ : q <= r
             IN  SubSeq(s, i, p - 1) \o MaskSub(expr, s, p + Len(expr))

\* Mask.mask: a Mask is a function from attribute names to expressions.
mask(m, key, value) ==
    IF key \in DOMAIN m THEN MaskSub(m[key], value, 1) ELSE value

RECURSIVE ApplyMasks(_, _, _)
ApplyMasks(masks, key, s) ==
    IF masks = <<>> THEN s
    ELSE ApplyMasks(Tail(masks), key, mask(Head(masks), key, s))

-----------------------------------------------------------------------------
(* Corpus and item tokens *)

\* Label.keys
ElementKeys == <<"ID", "text">>

\* An attribute that was given no value.
None == <<-1>>

RECURSIVE JoinTexts(_)
JoinTexts(parts) ==
    IF parts = <<>> THEN <<>>
    ELSE IF Len(parts) = 1 THEN parts[1]
    ELSE parts[1] \o <<0>> \o JoinTexts(Tail(parts))

\* One text per record: the masked values of the keys, joined by "\n".
get_corpus(d, keys, masks) ==
    AsSeq([i \in 1..Len(d) |->
        JoinTexts([k \in 1..Len(keys) |-> ApplyMasks(masks, keys[k], d[i][keys[k]])])])

\* What the generator of get_corpus raises: Mask.mask substitutes in the value
\* and join concatenates the values, and neither accepts None.
CorpusError(d, keys, masks) ==
    IF \E i \in 1..Len(d), k \in 1..Len(keys) : d[i][keys[k]] = None
    THEN "TypeError" ELSE ""

\* keys=None of get_corpus: every key of the element type.
CorpusKeys(given, keys) == IF ~given THEN ElementKeys ELSE keys

RECURSIVE ConcatTokens(_)
ConcatTokens(parts) ==
    IF parts = <<>> THEN <<>> ELSE Head(parts) \o ConcatTokens(Tail(parts))

get_item_tokens(d, params, i) ==
    ConcatTokens([k \in 1..Len(params.keys) |->
        regexp_tokenize(
            strip_accents(lower(ApplyMasks(params.masks, params.keys[k], d[i][params.keys[k]]))),
            params.token_pattern)])

-----------------------------------------------------------------------------
(* make_index *)

RECURSIVE DefaultKeys(_, _)
DefaultKeys(keys, ignore_ids) ==
    IF keys = <<>> THEN <<>>
    ELSE IF ~ignore_ids \/ Head(keys) # "ID"
         THEN <<Head(keys)>> \o DefaultKeys(Tail(keys), ignore_ids)
    ELSE DefaultKeys(Tail(keys), ignore_ids)

\* The analyzer of the vectorizers: lower case, accents stripped, pattern.
VectorizerTokens(doc, pattern) == regexp_tokenize(strip_accents(lower(doc)), pattern)

\* 100 x (ln((1 + n) / (1 + df)) + 1), the smoothed idf of TfidfVectorizer.
Idf(n, df) ==
    IF df >= n THEN 100
    ELSE IF n = 2 THEN 141
    ELSE IF n = 3 THEN (IF df = 1 THEN 169 ELSE 129)
    ELSE IF n = 4 THEN (IF df = 1 THEN 192 ELSE IF df = 2 THEN 151 ELSE 122)
    ELSE 100 + 40 * (n - df)

DocFreq(docTokens, t) == Cardinality({i \in DOMAIN docTokens : CountIn(docTokens[i], t) > 0})

\* score_matrix[i, j]: the count of the token in the document (method 1),
\* times the idf of the token (method 2).
MatrixScore(method, docTokens, i, t) ==
    IF method = 1 THEN CountIn(docTokens[i], t)
    ELSE CountIn(docTokens[i], t) * Idf(Len(docTokens), DocFreq(docTokens, t))

\* Variant of HitsOf: every record listed, whatever its score.
HitsOfAll(method, docTokens, t, i) ==
    AsSeq([k \in 1..Len(docTokens) |-> <<k, MatrixScore(method, docTokens, k, t)>>])

RECURSIVE HitsOf(_, _, _, _)
HitsOf(method, docTokens, t, i) ==
    IF i > Len(docTokens) THEN <<>>
    ELSE LET score == MatrixScore(method, docTokens, i, t)
         IN  (IF score # 0 THEN << <<i, score>> >> ELSE <<>>)
             \o HitsOf(method, docTokens, t, i + 1)

\* The index: one entry per feature name, in the sorted order of the
\* vocabulary, each with its (record, score) pairs in database order.
BuildIndex(method, docTokens) ==
    LET vocabulary == SortedTokens(UNION {Range(docTokens[i]) : i \in DOMAIN docTokens})
    IN  AsSeq([j \in 1..Len(vocabulary) |->
            [token |-> vocabulary[j], hits |-> HitsOf(method, docTokens, vocabulary[j], 1)]])

HasToken(entries, t) == \E j \in DOMAIN entries : entries[j].token = t

EntryOf(entries, t) == entries[CHOOSE j \in DOMAIN entries : entries[j].token = t]

\* Variant of ItemScore: every stored weight counted as 1.
ItemScoreOne(entries, i, t) == 1

\* item_scores[x.ID][token]
ItemScore(entries, i, t) ==
    LET hits == EntryOf(entries, t).hits
    IN  hits[CHOOSE k \in DOMAIN hits : hits[k][1] = i][2]

RECURSIVE SumItemScores(_, _, _)
SumItemScores(entries, i, tokens) ==
    IF tokens = <<>> THEN 0
    ELSE ItemScore(entries, i, Head(tokens)) + SumItemScores(entries, i, Tail(tokens))

\* Variant of MaxScores: the weights stored for the record, each added once.
MaxScoresStored(d, params, entries) ==
    LET withTokens == {i \in 1..Len(d) : get_item_tokens(d, params, i) # <<>>}
    IN  [id \in {d[i].ID : i \in withTokens} |->
            LET i == CHOOSE k \in withTokens : d[k].ID = id
            IN  SumItemScores(entries, i,
                              SortedTokens(Range(get_item_tokens(d, params, i))))]

\* _max_scores: one addition per token occurrence of the record; a record
\* without token gets no entry.
MaxScores(d, params, entries) ==
    LET withTokens == {i \in 1..Len(d) : get_item_tokens(d, params, i) # <<>>}
    IN  [id \in {d[i].ID : i \in withTokens} |->
            LET i == CHOOSE k \in withTokens : d[k].ID = id
            IN  SumItemScores(entries, i, get_item_tokens(d, params, i))]

-----------------------------------------------------------------------------
(* get_token_matches *)

RECURSIVE IntLog2(_)
IntLog2(n) == IF n < 2 THEN 0 ELSE 1 + IntLog2(n \div 2)

\* Variant of mismatch_rule: the budget without the "- 1".
mismatch_rule_log(s) == IF s = <<>> THEN 0 ELSE IntLog2(Len(s))

\* The number e of the fuzzy part "{e<=" e "}"; 0 stands for the empty part.
mismatch_rule(s) ==
    IF s = <<>> THEN 0
    ELSE LET e == IntLog2(Len(s)) - 1
         IN  IF e < 1 THEN 0 ELSE e

\* pattern.fullmatch(token) for the pattern (?:value){e<=k}: at most k
\* insertions, deletions and substitutions turn value into token (lengths
\* that differ by more than k cannot match).
FullMatch(value, k, token) ==
    /\ Len(token) - Len(value) <= k
    /\ Len(value) - Len(token) <= k
    /\ levenshtein(token, value) <= k

\* Variant of Identity: the normalised distance itself.
IdentityAsDistance(token, value) ==
    Frac(levenshtein(token, value), Max2(Len(token), Len(value)))

\* identity = 0 if d > l else (1 - d/l)
Identity(token, value) ==
    LET d == levenshtein(token, value)
        l == Max2(Len(token), Len(value))
    IN  IF d > l THEN <<0, 1>> ELSE Frac(l - d, l)

\* The index entries that the value selects, in the order of the index, each
\* with the identity of its token: self._index[value] alone when exact.
RECURSIVE MatchingEntries(_, _, _, _, _)
MatchingEntries(entries, value, exact, budget, j) ==
    IF j > Len(entries) THEN <<>>
    ELSE (IF exact
          THEN (IF entries[j].token = value
                THEN << [token |-> value, identity |-> <<1, 1>>, hits |-> entries[j].hits] >>
                ELSE <<>>)
          ELSE (IF FullMatch(value, budget, entries[j].token)
                THEN << [token |-> entries[j].token,
                         identity |-> Identity(entries[j].token, value),
                         hits |-> entries[j].hits] >>
                ELSE <<>>))
         \o MatchingEntries(entries, value, exact, budget, j + 1)

RECURSIVE HitMatches(_, _, _, _)
HitMatches(token, identity, hits, k) ==
    IF k > Len(hits) THEN <<>>
    ELSE << [x |-> hits[k][1], token |-> token, identity |-> identity, score |-> hits[k][2]] >>
         \o HitMatches(token, identity, hits, k + 1)

\* Every (record, token, identity, score) the loops visit for one value,
\* in the order they visit them; filtering is called once for each.
RECURSIVE VisitedIn(_)
VisitedIn(selected) ==
    IF selected = <<>> THEN <<>>
    ELSE HitMatches(Head(selected).token, Head(selected).identity, Head(selected).hits, 1)
         \o VisitedIn(Tail(selected))

Visited(entries, value, exact) ==
    VisitedIn(MatchingEntries(entries, value, exact,
                              IF exact THEN 0 ELSE mismatch_rule(value), 1))

\* Variant of Kept: filtering is not consulted.
KeptAll(ms, filtering) == ms

RECURSIVE Kept(_, _)
Kept(ms, filtering) ==
    IF ms = <<>> THEN <<>>
    ELSE (IF Head(ms).x \in filtering THEN <<Head(ms)>> ELSE <<>>)
         \o Kept(Tail(ms), filtering)

RECURSIVE FirstSeen(_, _)
FirstSeen(ms, seen) ==
    IF ms = <<>> THEN <<>>
    ELSE IF Head(ms).x \in seen THEN FirstSeen(Tail(ms), seen)
    ELSE <<Head(ms).x>> \o FirstSeen(Tail(ms), seen \cup {Head(ms).x})

RECURSIVE OfRecord(_, _)
OfRecord(ms, x) ==
    IF ms = <<>> THEN <<>>
    ELSE (IF Head(ms).x = x THEN <<Head(ms)>> ELSE <<>>) \o OfRecord(Tail(ms), x)

\* Variant of Better: the identity alone.
BetterByIdentity(a, b) == FracLess(b.identity, a.identity)

\* a ranks strictly above b under the key (identity, score)
Better(a, b) ==
    \/ FracLess(b.identity, a.identity)
    \/ (a.identity = b.identity /\ a.score > b.score)

\* sorted(..., reverse=True)[0]: the first of the greatest elements
RECURSIVE BestMatch(_, _)
BestMatch(ms, best) ==
    IF ms = <<>> THEN best
    ELSE BestMatch(Tail(ms), IF Better(Head(ms), best) THEN Head(ms) ELSE best)

\* The returned dict, as the sequence of its values in key order.
BestPerRecord(visited, filtering) ==
    LET kept == Kept(visited, filtering)
        xs   == FirstSeen(kept, {})
    IN  AsSeq([n \in 1..Len(xs) |->
            LET mine == OfRecord(kept, xs[n]) IN BestMatch(Tail(mine), Head(mine))])

get_token_matches(entries, value, exact, filtering) ==
    BestPerRecord(Visited(entries, value, exact), filtering)

\* The tokens of the index the value matched (before any filtering).
MatchedTokens(entries, value, exact) ==
    LET selected == MatchingEntries(entries, value, exact,
                                    IF exact THEN 0 ELSE mismatch_rule(value), 1)
    IN  {selected[n].token : n \in 1..Len(selected)}

-----------------------------------------------------------------------------
(* search *)

get_norm_leven_dist(s1, s2, simplify) ==
    LET t1 == IF simplify THEN simplify_str(s1) ELSE s1
        t2 == IF simplify THEN simplify_str(s2) ELSE s2
    IN  Frac(levenshtein(t1, t2), Max2(Len(t1), Len(t2)))

\* Variant of OneMinus: the distance is added.
OnePlus(x) == Frac(x[2] + x[1], x[2])

OneMinus(x) == Frac(x[2] - x[1], x[2])

QueryTokens(params, query) ==
    regexp_tokenize(strip_accents(lower(query)), params.token_pattern)

\* matched_tokens, flattened: the matches of every query token, in order.
RECURSIVE AllMatches(_, _, _, _)
AllMatches(entries, qs, exact, filtering) ==
    IF qs = <<>> THEN <<>>
    ELSE get_token_matches(entries, Head(qs), exact, filtering)
         \o AllMatches(entries, Tail(qs), exact, filtering)

\* Variant of RemoveFirst: the token stays in the list.
KeepTokens(ws, t) == ws

RECURSIVE RemoveFirst(_, _)
RemoveFirst(ws, t) ==
    IF ws = <<>> THEN <<>>
    ELSE IF Head(ws) = t THEN Tail(ws)
    ELSE <<Head(ws)>> \o RemoveFirst(Tail(ws), t)

\* hit_scoring[x_ID] = [score, n]: the matches of one record consume its
\* tokens; a match whose token is no longer there is skipped.
RECURSIVE Consume(_, _, _, _)
Consume(ms, subject_tokens, scoring, acc) ==
    IF ms = <<>> THEN acc
    ELSE LET m == Head(ms)
         IN  IF m.token \in Range(subject_tokens)
             THEN Consume(Tail(ms), RemoveFirst(subject_tokens, m.token), scoring,
                          [score |-> FracAdd(acc.score,
                                             FracMul(<<m.score, 1>>,
                                                     IF scoring # "w" THEN <<1, 1>>
                                                     ELSE m.identity)),
                           n |-> acc.n + 1])
             ELSE Consume(Tail(ms), subject_tokens, scoring, acc)

\* Variant of HitScoring: every record of the database is scored, matched or
\* not.
HitScoringEveryRecord(d, entries, params, qs, exact, filtering, scoring) ==
    AsSeq([n \in 1..Len(d) |-> [x |-> n, hit |-> [score |-> <<1, 1>>, n |-> 1]]])

HitScoring(d, entries, params, qs, exact, filtering, scoring) ==
    LET all == AllMatches(entries, qs, exact, filtering)
        xs  == FirstSeen(all, {})
    IN  AsSeq([n \in 1..Len(xs) |->
            [x |-> xs[n],
             hit |-> Consume(OfRecord(all, xs[n]), get_item_tokens(d, params, xs[n]),
                             scoring, [score |-> <<0, 1>>, n |-> 0])]])

RECURSIVE Scored(_, _)
Scored(hs, k) ==
    IF k > Len(hs) THEN <<>>
    ELSE (IF hs[k].hit.n > 0 THEN <<hs[k]>> ELSE <<>>) \o Scored(hs, k + 1)

\* Variant of FinalScore: the share of matched query tokens is left out.
FinalScoreUnweighted(d, maxs, query, qs, h, scoring) ==
    LET w == FracMul(h.hit.score, <<1, maxs.scores[d[h.x].ID]>>)
        l == OneMinus(get_norm_leven_dist(query, d[h.x].text, TRUE))
    IN  IF scoring = "w" THEN w
        ELSE IF scoring = "w+l" THEN FracMul(w, l)
        ELSE l

\* The score of one entry of hit_scoring under the scoring method.
FinalScore(d, maxs, query, qs, h, scoring) ==
    LET w == FracMul(FracMul(h.hit.score, <<1, maxs.scores[d[h.x].ID]>>),
                     <<h.hit.n, Len(qs)>>)
        l == OneMinus(get_norm_leven_dist(query, d[h.x].text, TRUE))
    IN  IF scoring = "w" THEN w
        ELSE IF scoring = "w+l" THEN FracMul(w, l)
        ELSE l

\* result.sort(key=score, reverse=True): stable, equal scores keep their order
RECURSIVE InsertByScore(_, _)
InsertByScore(sorted, r) ==
    IF sorted = <<>> THEN <<r>>
    ELSE IF FracLess(Head(sorted)[2], r[2]) THEN <<r>> \o sorted
    ELSE <<Head(sorted)>> \o InsertByScore(Tail(sorted), r)

\* Variant of SortByScore: the results in the order they were appended.
Unsorted(rs, acc) == acc \o rs

RECURSIVE SortByScore(_, _)
SortByScore(rs, acc) ==
    IF rs = <<>> THEN acc
    ELSE SortByScore(Tail(rs), InsertByScore(acc, Head(rs)))

\* Variant of ScoringBranch: any other value taken as "w".
ScoringBranchLenient(scoring) ==
    IF scoring = "l" THEN "leven" ELSE "weighted"

\* The branch of search that builds the result for a scoring value.
ScoringBranch(scoring) ==
    IF scoring \in {"w", "w+l"} THEN "weighted"
    ELSE IF scoring = "l" THEN "leven"
    ELSE "unknown"

\* What search returns or raises on an index that exists.
SearchOutcome(d, entries, params, maxs, query, exact, filtering, scoring) ==
    LET qs   == QueryTokens(params, query)
        hits == Scored(HitScoring(d, entries, params, qs, exact, filtering, scoring), 1)
        missing == \E k \in 1..Len(hits) : d[hits[k].x].ID \notin DOMAIN maxs.scores
    IN  IF ScoringBranch(scoring) = "unknown"
        THEN [error |-> "ValueError", result |-> <<>>]
        ELSE IF scoring # "l" /\ missing
        THEN [error |-> IF maxs.default THEN "ZeroDivisionError" ELSE "KeyError",
              result |-> <<>>]
        ELSE [error |-> "",
              result |-> SortByScore(
                  [k \in 1..Len(hits) |->
                      <<hits[k].x, FinalScore(d, maxs, query, qs, hits[k], scoring)>>],
                  <<>>)]

\* The calls of filtering made for each record during one search.
FilterCallsOf(d, entries, params, query, exact) ==
    LET qs == QueryTokens(params, query)
    IN  [x \in 1..Len(d) |->
            LET PerToken(q) == Len(OfRecord(Visited(entries, q, exact), x))
                RECURSIVE Sum(_)
                Sum(ts) == IF ts = <<>> THEN 0 ELSE PerToken(Head(ts)) + Sum(Tail(ts))
            IN  Sum(qs)]

\* self._index[value] on a defaultdict stores an empty list under a value
\* that is not a key yet.
RECURSIVE TouchDefault(_, _)
TouchDefault(entries, qs) ==
    IF qs = <<>> THEN entries
    ELSE TouchDefault(
            IF HasToken(entries, Head(qs)) THEN entries
            ELSE Append(entries, [token |-> Head(qs), hits |-> <<>>]),
            Tail(qs))

-----------------------------------------------------------------------------
(* Databases and inputs of the model *)

\* Repeated tokens, two records with the same tokens, a one-letter record.
DbRepeats ==
    << [ID |-> <<18, 1>>, text |-> <<101, 2, 0, 3, 4, 0, 1, 2>>],
       [ID |-> <<18, 2>>, text |-> <<3, 4, 0, 1, 2, 0, 1, 2>>],
       [ID |-> <<18, 3>>, text |-> <<24>>] >>

\* A single record of one-letter words.
DbTiny ==
    << [ID |-> <<18, 1>>, text |-> <<24, 0, 25>>] >>

\* Two short records that share their words: "Ab cd" and "cd ab".
DbPair ==
    << [ID |-> <<18, 1>>, text |-> <<101, 2, 0, 3, 4>>],
       [ID |-> <<18, 2>>, text |-> <<3, 4, 0, 1, 2>>] >>

\* Tokens of 4 letters at one edit of each other, one of them repeated, and
\* a token of 3 letters: "abcx abcx abcd" and "abcy abc".
DbTies ==
    << [ID |-> <<18, 1>>,
        text |-> <<1, 2, 3, 24, 0, 1, 2, 3, 24, 0, 1, 2, 3, 4>>],
       [ID |-> <<18, 2>>, text |-> <<1, 2, 3, 25, 0, 1, 2, 3>>] >>

\* A record built without its text: "ab" and None.
DbMissing ==
    << [ID |-> <<18, 1>>, text |-> <<1, 2>>],
       [ID |-> <<18, 2>>, text |-> None] >>

\* A token at one edit of another token, in a record that holds only one of
\* them: "abcy cd" and "abcz abcy".
DbOrder ==
    << [ID |-> <<18, 1>>, text |-> <<1, 2, 3, 25, 0, 3, 4>>],
       [ID |-> <<18, 2>>, text |-> <<1, 2, 3, 26, 0, 1, 2, 3, 25>>] >>

Word16 == [i \in 1..16 |-> i]

\* Tokens of 3, 4, 8 and 16 letters and their variants at 1 to 4 edits.
DbFuzzy ==
    << [ID |-> <<18, 1>>,
        text |-> <<1, 2, 3, 0, 1, 2, 24, 0, 1, 2, 3, 4, 0, 1, 2, 3, 24, 0, 1, 2, 24, 25>>],
       [ID |-> <<18, 2>>,
        text |-> <<1, 2, 3, 4, 5, 6, 24, 25, 0, 1, 2, 3, 4, 5, 24, 25, 26>>],
       [ID |-> <<18, 3>>,
        text |-> [Word16 EXCEPT ![14] = 24, ![15] = 25, ![16] = 26] \o <<0>>
                 \o [Word16 EXCEPT ![13] = 23, ![14] = 24, ![15] = 25, ![16] = 26]] >>

Fixtures ==
    { [d |-> DbRepeats, words |-> {<<1, 2>>, <<26, 26>>}],
      [d |-> DbTiny,    words |-> {<<24>>}],
      [d |-> DbPair,    words |-> {<<1, 2>>, <<26, 26>>}],
      [d |-> DbTies,    words |-> {<<1, 2, 3, 26>>}],
      [d |-> DbOrder,   words |-> {<<1, 2, 3, 26>>, <<1, 2, 3, 25>>}],
      [d |-> DbMissing, words |-> {<<1, 2>>, <<18, 1>>}],
      [d |-> DbFuzzy,   words |-> {<<1, 2, 3, 4, 5, 6, 7, 8>>, Word16}] }

QueryWords(d) == (CHOOSE f \in Fixtures : f.d = d).words

RECURSIVE WordSeqs(_, _)
WordSeqs(W, n) ==
    IF n = 0 THEN {<<>>}
    ELSE LET shorter == WordSeqs(W, n - 1)
         IN  shorter \cup {<<w>> \o ws : w \in W, ws \in {x \in shorter : Len(x) = n - 1}}

\* The query texts: the words of the database's fixture, up to MaxQueryLen of
\* them separated by a space, and, on a built index, the corpus text of each
\* record.
Queries ==
    {JoinTexts(ws) : ws \in WordSeqs(QueryWords(db), MaxQueryLen)}
    \cup (IF built THEN Range(get_corpus(db, parameters.keys, parameters.masks)) ELSE {})

AllRecords == 1..Len(db)

\* filtering, as the set of the records it accepts
Filters == {AllRecords, AllRecords \ {1}}

Scorings == {"w", "l", "w+l"}

\* scoring values that search does not know
OtherScorings == {"x", "W"}

Methods == {1, 2, 3}

MinLens == {1, 2}

\* masks: None, or one Mask that deletes "cd" from the text
MaskChoices == {<<>>, << [text |-> <<3, 4>>] >>}

NoIndex == [exists |-> FALSE, default |-> FALSE, entries |-> <<>>]

NoParameters ==
    [exists |-> FALSE, method |-> 0, token_pattern |-> [min_char |-> 0],
     keys |-> <<>>, masks |-> <<>>]

NoMaxScores == [exists |-> FALSE, default |-> FALSE, scores |-> <<>>]

NoOrigin == [loaded |-> FALSE, entries |-> <<>>, parameters |-> NoParameters,
             max_scores |-> NoMaxScores]

NoFile == [state |-> "none", index |-> <<>>, parameters |-> NoParameters,
           max_scores |-> <<>>, built |-> FALSE, origin |-> NoOrigin]

NoArgs == [query |-> <<>>, exact |-> FALSE, filtering |-> {}, scoring |-> ""]

NoOptions == [script |-> "none"]

\* No script runs.
NoScript ==
    /\ pc = "none"
    /\ options = NoOptions
    /\ stdout = <<>>
    /\ to_be_sorted = <<>>
    /\ group_no = 0
    /\ pending = <<>>
    /\ unmatched = [labels |-> {}, ce |-> {}]
    /\ date_index = <<>>

\* The state after DB.__init__ on one of the given databases: no index yet.
Constructed(dbs) ==
    /\ db \in dbs
    /\ index = NoIndex
    /\ parameters = NoParameters
    /\ max_scores = NoMaxScores
    /\ file = NoFile
    /\ built = FALSE
    /\ completed = FALSE
    /\ origin = NoOrigin
    /\ lastOp = "none"
    /\ lastError = ""
    /\ lastArgs = NoArgs
    /\ lastResult = <<>>
    /\ filterCalls = [x \in AllRecords |-> 0]
    /\ lastMatched = <<>>
    /\ NoScript

NoCallDetail ==
    /\ lastArgs' = NoArgs
    /\ lastResult' = <<>>
    /\ filterCalls' = [x \in AllRecords |-> 0]
    /\ lastMatched' = <<>>

-----------------------------------------------------------------------------
(* Operations *)

is_indexed == index.exists

\* make_index(method, min_len, keys=None, masks, ignore_ids): the index and the
\* parameters are assigned first; an unsupported method, a value that is None
\* or an empty vocabulary then raises before anything else is stored.
MakeIndex(method, min_len, masks, ignore_ids) ==
    /\ lastOp = "none"
    /\ LET keys      == DefaultKeys(ElementKeys, ignore_ids)
           params    == [exists |-> TRUE, method |-> method,
                         token_pattern |-> get_word_tokenize_pattern(min_len),
                         keys |-> keys, masks |-> masks]
           corpus    == get_corpus(db, keys, masks)
           docTokens == AsSeq([i \in 1..Len(db) |->
                               VectorizerTokens(corpus[i], params.token_pattern)])
           entries   == BuildIndex(method, docTokens)
       IN  /\ parameters' = params
           /\ IF method \notin {1, 2}
              THEN /\ index' = [exists |-> TRUE, default |-> TRUE, entries |-> <<>>]
                   /\ lastError' = "UnboundLocalError"
                   /\ UNCHANGED <<max_scores, completed>>
                   /\ built' = FALSE
              ELSE IF CorpusError(db, keys, masks) # ""
              THEN /\ index' = [exists |-> TRUE, default |-> TRUE, entries |-> <<>>]
                   /\ lastError' = CorpusError(db, keys, masks)
                   /\ UNCHANGED <<max_scores, completed>>
                   /\ built' = FALSE
              ELSE IF \A i \in 1..Len(db) : docTokens[i] = <<>>
              THEN /\ index' = [exists |-> TRUE, default |-> TRUE, entries |-> <<>>]
                   /\ lastError' = "ValueError"
                   /\ UNCHANGED <<max_scores, completed>>
                   /\ built' = FALSE
              ELSE /\ index' = [exists |-> TRUE, default |-> TRUE, entries |-> entries]
                   /\ max_scores' = [exists |-> TRUE, default |-> TRUE,
                                     scores |-> MaxScores(db, params, entries)]
                   /\ lastError' = ""
                   /\ built' = TRUE
                   /\ completed' = TRUE
    /\ lastOp' = "make_index"
    /\ origin' = NoOrigin
    /\ NoCallDetail
    /\ UNCHANGED <<db, file>>
    /\ UNCHANGED scriptVars

RECURSIVE DumpHits(_, _)
DumpHits(d, hits) ==
    IF hits = <<>> THEN <<>>
    ELSE << <<d[Head(hits)[1]].ID, Head(hits)[2]>> >> \o DumpHits(d, Tail(hits))

\* The "index" section: each record replaced by its ID.
DumpEntries(d, entries) ==
    AsSeq([j \in 1..Len(entries) |->
        [token |-> entries[j].token, hits |-> DumpHits(d, entries[j].hits)]])

\* dump_index: a Mask among the parameters is not serialisable, and the
\* document is cut short where the encoder meets it.
DumpIndex ==
    /\ lastOp = "none"
    /\ IF ~is_indexed
       THEN lastError' = "ValueError" /\ UNCHANGED file
       ELSE IF ~max_scores.exists
       THEN lastError' = "AttributeError" /\ UNCHANGED file
       ELSE IF parameters.masks # <<>>
       THEN /\ lastError' = "TypeError"
            /\ file' = [NoFile EXCEPT !.state = "truncated"]
       ELSE /\ lastError' = ""
            /\ file' = [state |-> "complete",
                        index |-> DumpEntries(db, index.entries),
                        parameters |-> parameters,
                        max_scores |-> max_scores.scores,
                        built |-> built,
                        origin |-> [loaded |-> TRUE, entries |-> index.entries,
                                    parameters |-> parameters,
                                    max_scores |-> max_scores]]
    /\ lastOp' = "dump_index"
    /\ NoCallDetail
    /\ UNCHANGED <<db, index, parameters, max_scores, built, completed, origin>>
    /\ UNCHANGED scriptVars

\* Variant of get: the first record, whatever the ID.
getFirst(d, ID) == 1

\* DB.get
get(d, ID) == CHOOSE i \in 1..Len(d) : d[i].ID = ID

RECURSIVE LoadHits(_, _)
LoadHits(d, hits) ==
    IF hits = <<>> THEN <<>>
    ELSE << <<get(d, Head(hits)[1]), Head(hits)[2]>> >> \o LoadHits(d, Tail(hits))

LoadEntries(d, section) ==
    AsSeq([j \in 1..Len(section) |->
        [token |-> section[j].token, hits |-> LoadHits(d, section[j].hits)]])

\* load_index: the three attributes are replaced by plain dicts of the document.
LoadIndex ==
    /\ lastOp = "none"
    /\ file.state # "none"
    /\ IF file.state = "truncated"
       THEN /\ lastError' = "JSONDecodeError"
            /\ UNCHANGED <<index, parameters, max_scores, built, completed, origin>>
       ELSE /\ lastError' = ""
            /\ index' = [exists |-> TRUE, default |-> FALSE,
                         entries |-> LoadEntries(db, file.index)]
            /\ parameters' = file.parameters
            /\ max_scores' = [exists |-> TRUE, default |-> FALSE, scores |-> file.max_scores]
            /\ built' = file.built
            /\ completed' = TRUE
            /\ origin' = file.origin
    /\ lastOp' = "load_index"
    /\ NoCallDetail
    /\ UNCHANGED <<db, file>>
    /\ UNCHANGED scriptVars

\* search(query, mismatch_rule, filtering, scoring); exact stands for
\* mismatch_rule=None.
Search(query, exact, filtering, scoring) ==
    /\ lastOp = "none"
    /\ lastOp' = "search"
    /\ lastArgs' = [query |-> query, exact |-> exact, filtering |-> filtering,
                    scoring |-> scoring]
    /\ IF ~is_indexed
       THEN /\ lastError' = "ValueError"
            /\ lastResult' = <<>>
            /\ filterCalls' = [x \in AllRecords |-> 0]
            /\ lastMatched' = <<>>
            /\ UNCHANGED index
       ELSE LET qs  == QueryTokens(parameters, query)
                out == SearchOutcome(db, index.entries, parameters, max_scores,
                                     query, exact, filtering, scoring)
            IN  /\ lastError' = out.error
                /\ lastResult' = out.result
                /\ filterCalls' = FilterCallsOf(db, index.entries, parameters, query, exact)
                /\ lastMatched' = [n \in 1..Len(qs) |->
                                      [q |-> qs[n],
                                       tokens |-> MatchedTokens(index.entries, qs[n], exact)]]
                /\ index' = IF exact /\ index.default
                            THEN [index EXCEPT !.entries = TouchDefault(index.entries, qs)]
                            ELSE index
    /\ UNCHANGED <<db, parameters, max_scores, file, built, completed, origin>>
    /\ UNCHANGED scriptVars

\* The caller takes the result or the exception; the call is over.
Return ==
    /\ lastOp # "none"
    /\ lastOp' = "none"
    /\ lastError' = ""
    /\ NoCallDetail
    /\ UNCHANGED <<db, index, parameters, max_scores, file, built, completed, origin>>
    /\ UNCHANGED scriptVars

SomeSearch ==
    \E query \in Queries, exact \in BOOLEAN, filtering \in Filters, scoring \in Scorings :
        Search(query, exact, filtering, scoring)

\* Indexing and searching, with every method value, supported or not.
Init == Constructed({DbRepeats, DbTiny})

Next ==
    \/ \E method \in Methods, min_len \in MinLens, masks \in MaskChoices :
          MakeIndex(method, min_len, masks, TRUE)
    \/ SomeSearch
    \/ Return

Spec == Init /\ [][Next]_vars

\* Indexing with the supported methods, saving, loading and searching.
InitPersist == Constructed({DbPair})

NextPersist ==
    \/ \E method \in Methods \cap {1, 2}, masks \in MaskChoices :
          MakeIndex(method, 1, masks, TRUE)
    \/ DumpIndex
    \/ LoadIndex
    \/ SomeSearch
    \/ Return

SpecPersist == InitPersist /\ [][NextPersist]_vars

\* search with the default mismatch_rule
FuzzySearch ==
    \E query \in Queries, filtering \in Filters, scoring \in Scorings :
        Search(query, FALSE, filtering, scoring)

\* Searching with the default mismatch_rule: tokens of 3 to 16 letters, and
\* the short repeated tokens of DbRepeats.
InitFuzzy == Constructed({DbFuzzy, DbRepeats})

NextFuzzy ==
    \/ \E method \in Methods \cap {1, 2} : MakeIndex(method, 1, <<>>, TRUE)
    \/ FuzzySearch
    \/ Return

SpecFuzzy == InitFuzzy /\ [][NextFuzzy]_vars

\* Both matching modes over tokens of 3 and 4 letters, some at the same
\* distance of a query token.
InitMatch == Constructed({DbTies})

NextMatch ==
    \/ \E method \in Methods \cap {1, 2} : MakeIndex(method, 1, <<>>, TRUE)
    \/ SomeSearch
    \/ Return

SpecMatch == InitMatch /\ [][NextMatch]_vars

\* list(get_corpus(keys, masks)); given = FALSE stands for keys=None.
GetCorpus(given, keys, masks) ==
    /\ lastOp = "none"
    /\ lastOp' = "get_corpus"
    /\ lastArgs' = [given |-> given, keys |-> keys, masks |-> masks]
    /\ LET ks == CorpusKeys(given, keys)
       IN  /\ lastError' = CorpusError(db, ks, masks)
           /\ lastResult' = IF CorpusError(db, ks, masks) # "" THEN <<>>
                            ELSE get_corpus(db, ks, masks)
    /\ filterCalls' = [x \in AllRecords |-> 0]
    /\ lastMatched' = <<>>
    /\ UNCHANGED <<db, index, parameters, max_scores, file, built, completed, origin>>
    /\ UNCHANGED scriptVars

\* search with any scoring value
AnySearch ==
    \E query \in Queries, exact \in BOOLEAN, filtering \in Filters,
       scoring \in Scorings \cup OtherScorings :
        Search(query, exact, filtering, scoring)

\* The arguments left to their defaults or given values the code does not
\* expect, on records with and without a text.
InitInputs == Constructed({DbPair, DbMissing})

NextInputs ==
    \/ \E method \in Methods \cap {1, 2} : MakeIndex(method, 1, <<>>, TRUE)
    \/ \E given \in BOOLEAN, masks \in MaskChoices : GetCorpus(given, <<"text">>, masks)
    \/ AnySearch
    \/ Return

SpecInputs == InitInputs /\ [][NextInputs]_vars

\* Variant of SubsetValues: every record kept.
AllValues(d, filtering, i) == d

\* [x for x in self._dict.values() if filtering(x)], from record i on.
RECURSIVE SubsetValues(_, _, _)
SubsetValues(d, filtering, i) ==
    IF i > Len(d) THEN <<>>
    ELSE (IF i \in filtering THEN <<d[i]>> ELSE <<>>) \o SubsetValues(d, filtering, i + 1)

\* DB.__init__(values, dbtype): the object it leaves, which has no _index.
NewDB(values) == [db |-> values, index |-> NoIndex]

\* subset(filtering): returns a new DB of the accepted records.
Subset(filtering) ==
    /\ lastOp = "none"
    /\ lastOp' = "subset"
    /\ lastArgs' = [filtering |-> filtering]
    /\ lastError' = ""
    /\ lastResult' = NewDB(SubsetValues(db, filtering, 1))
    /\ filterCalls' = [x \in AllRecords |-> 1]
    /\ lastMatched' = <<>>
    /\ UNCHANGED <<db, index, parameters, max_scores, file, built, completed, origin>>
    /\ UNCHANGED scriptVars

\* Subsetting a database before and after it is indexed.
InitSubset == Constructed({DbRepeats, DbPair})

NextSubset ==
    \/ \E method \in Methods, min_len \in MinLens, masks \in MaskChoices :
          MakeIndex(method, min_len, masks, TRUE)
    \/ \E filtering \in SUBSET AllRecords : Subset(filtering)
    \/ Return

SpecSubset == InitSubset /\ [][NextSubset]_vars

\* type(x): a Label has the attributes ID and text, a CollectingEvent has
\* location, date and collector as well.
TypeOf(x) == IF "location" \in DOMAIN x THEN "CollectingEvent" ELSE "Label"

\* hasattr(dbtype, attr) for attr in ("ID", "text")
HasRecordAttributes(dbtype) == dbtype \in {"Label", "CollectingEvent"}

\* dict((x.ID, x) for x in values).values(): one value per ID, at the place of
\* the first value with that ID, the last value with that ID kept.
DictValues(values) ==
    LET firsts == {k \in DOMAIN values : \A j \in 1..(k - 1) : values[j].ID # values[k].ID}
        LastOf(k) == CHOOSE j \in DOMAIN values :
                         /\ values[j].ID = values[k].ID
                         /\ \A j2 \in DOMAIN values : values[j2].ID = values[k].ID => j2 <= j
        RECURSIVE From(_)
        From(k) == IF k > Len(values) THEN <<>>
                   ELSE (IF k \in firsts THEN <<values[LastOf(k)]>> ELSE <<>>) \o From(k + 1)
    IN  From(1)

\* DB.__init__(values, dbtype): the error it raises, if any, and the object.
InitOutcome(values, dbtype) ==
    IF ~HasRecordAttributes(dbtype)
    THEN [error |-> "TypeError", object |-> <<>>]
    ELSE IF \E k \in DOMAIN values : TypeOf(values[k]) # dbtype
    THEN [error |-> "TypeError", object |-> <<>>]
    ELSE [error |-> "",
          object |-> [db |-> DictValues(values), index |-> NoIndex, element_type |-> dbtype]]

\* The values a database is built from: Labels and CollectingEvents.
ValuePool ==
    { [ID |-> <<18, 1>>, text |-> <<1, 2>>],
      [ID |-> <<18, 2>>, text |-> <<3, 4>>],
      [ID |-> <<18, 1>>, text |-> <<3, 4>>],
      [ID |-> <<18, 3>>, text |-> <<24>>],
      [ID |-> <<5, 1>>, location |-> <<1>>, date |-> <<2>>, collector |-> <<3>>,
       text |-> <<1, 2>>],
      [ID |-> <<5, 2>>, location |-> <<1>>, date |-> <<2>>, collector |-> <<3>>,
       text |-> <<3, 4>>] }

MaxValues == 2

ValueLists == UNION {[1..n -> ValuePool] : n \in 0..MaxValues}

\* dbtype: None, or one of the record classes
DbTypes == {"None", "Label", "CollectingEvent"}

\* DB(values, dbtype)
Construct(values, dbtype) ==
    /\ lastOp = "none"
    /\ lastOp' = "construct"
    /\ lastArgs' = [values |-> values, dbtype |-> dbtype]
    /\ lastError' = InitOutcome(values, dbtype).error
    /\ lastResult' = InitOutcome(values, dbtype).object
    /\ filterCalls' = [x \in AllRecords |-> 0]
    /\ lastMatched' = <<>>
    /\ UNCHANGED <<db, index, parameters, max_scores, file, built, completed, origin>>
    /\ UNCHANGED scriptVars

\* Building databases from lists of values, with and without dbtype.
InitConstruct == Constructed({DbTiny})

NextConstruct ==
    \/ \E values \in ValueLists, dbtype \in DbTypes : Construct(values, dbtype)
    \/ Return

SpecConstruct == InitConstruct /\ [][NextConstruct]_vars

\* mfnb.utils.overlap: intervals as pairs of bounds
overlap(a, b) == Min2(a[2], b[2]) >= Max2(a[1], b[1])

\* x & y on naturals
RECURSIVE BitAnd(_, _)
BitAnd(x, y) ==
    IF x = 0 \/ y = 0 THEN 0
    ELSE 2 * BitAnd(x \div 2, y \div 2) + (IF x % 2 = 1 /\ y % 2 = 1 THEN 1 ELSE 0)

\* The test "p > level & q > level" of overlap_with, as Python reads it: & binds
\* tighter than >, and the comparisons are chained.
PrecisionTest(p, level, q) ==
    p > BitAnd(level, q) /\ BitAnd(level, q) > level

\* Date.__lt__ and Date.__le__ for two dates of day precision
DateLess(a, b) ==
    IF a.year < b.year THEN TRUE
    ELSE IF a.month < b.month THEN TRUE
    ELSE a.day < b.day

DateLeq(a, b) == DateLess(a, b) \/ a = b

\* DateRange(a, b): the two dates, the one that is <= the other first.
DateRange(a, b, century_known, precision_level) ==
    [start |-> IF DateLeq(a, b) THEN a ELSE b,
     end   |-> IF DateLeq(a, b) THEN b ELSE a,
     century_known |-> century_known,
     precision_level |-> precision_level]

\* The comparison of overlap_with for two ranges of known century.
KnownOverlap(self, other) ==
    LET years_overlap  == overlap(<<self.start.year, self.end.year>>,
                                  <<other.start.year, other.end.year>>)
        months_overlap == IF PrecisionTest(self.precision_level, 0, other.precision_level)
                          THEN overlap(<<self.start.month, self.end.month>>,
                                       <<other.start.month, other.end.month>>)
                          ELSE TRUE
        days_overlap   == IF PrecisionTest(self.precision_level, 1, other.precision_level)
                          THEN overlap(<<self.start.day, self.end.day>>,
                                       <<other.start.day, other.end.day>>)
                          ELSE TRUE
    IN  years_overlap /\ months_overlap /\ days_overlap

\* The range with its years moved to the century of the reference range.
InCenturyOf(ref, r) ==
    LET Moved(d) == [d EXCEPT !.year = (d.year % 100) + (ref.start.year \div 100) * 100]
    IN  DateRange(Moved(r.start), Moved(r.end), TRUE, r.precision_level)

\* DateRange.overlap_with(other, assume_same_century) for a DateRange other
overlap_with(self, other, assume_same_century) ==
    IF self.century_known /\ other.century_known THEN KnownOverlap(self, other)
    ELSE IF assume_same_century
    THEN IF self.century_known THEN KnownOverlap(self, InCenturyOf(self, other))
         ELSE IF other.century_known THEN KnownOverlap(InCenturyOf(other, self), other)
         ELSE FALSE
    ELSE FALSE

\* Dates of day precision over two years, two months and two days.
DayDates(years) == [year : years, month : {1, 6}, day : {10, 20}]

\* The ranges of the model: century known (years 1900, 1901) or not ('00).
DateRanges ==
    {DateRange(a, b, TRUE, 2) : a, b \in DayDates({1900, 1901})}
    \cup {DateRange(a, b, FALSE, 2) : a, b \in DayDates({0})}

\* self.overlap_with(other, assume_same_century)
OverlapWith(self, other, assume_same_century) ==
    /\ lastOp = "none"
    /\ lastOp' = "overlap_with"
    /\ lastArgs' = [self |-> self, other |-> other,
                    assume_same_century |-> assume_same_century]
    /\ lastError' = ""
    /\ lastResult' = overlap_with(self, other, assume_same_century)
    /\ filterCalls' = [x \in AllRecords |-> 0]
    /\ lastMatched' = <<>>
    /\ UNCHANGED <<db, index, parameters, max_scores, file, built, completed, origin>>
    /\ UNCHANGED scriptVars

\* Comparing date ranges.
InitDates == Constructed({DbTiny})

NextDates ==
    \/ \E self \in DateRanges, other \in DateRanges, assume \in BOOLEAN :
          OverlapWith(self, other, assume)
    \/ Return

SpecDates == InitDates /\ [][NextDates]_vars

\* Queries of the same tokens in different orders, some of them at one edit of
\* a token of the index.
InitOrder == Constructed({DbOrder})

NextOrder ==
    \/ \E method \in Methods \cap {1, 2} : MakeIndex(method, 1, <<>>, TRUE)
    \/ SomeSearch
    \/ Return

SpecOrder == InitOrder /\ [][NextOrder]_vars

-----------------------------------------------------------------------------
(* The scripts *)

\* db.make_index(method, min_len, keys) as the scripts call it: what it
\* stores, and the exception it raises, if any.
IndexOutcome(d, method, min_len, keys) ==
    LET params    == [exists |-> TRUE, method |-> method,
                      token_pattern |-> get_word_tokenize_pattern(min_len),
                      keys |-> keys, masks |-> <<>>]
        error     == IF method \notin {1, 2} THEN "UnboundLocalError"
                     ELSE CorpusError(d, keys, <<>>)
        corpus    == get_corpus(d, keys, <<>>)
        docTokens == AsSeq([i \in 1..Len(d) |->
                            VectorizerTokens(corpus[i], params.token_pattern)])
        entries   == BuildIndex(method, docTokens)
        empty     == [exists |-> TRUE, default |-> TRUE, entries |-> <<>>]
    IN  IF error # ""
        THEN [error |-> error, parameters |-> params, index |-> empty,
              max_scores |-> NoMaxScores]
        ELSE IF \A i \in 1..Len(d) : docTokens[i] = <<>>
        THEN [error |-> "ValueError", parameters |-> params, index |-> empty,
              max_scores |-> NoMaxScores]
        ELSE [error |-> "", parameters |-> params,
              index |-> [exists |-> TRUE, default |-> TRUE, entries |-> entries],
              max_scores |-> [exists |-> TRUE, default |-> TRUE,
                              scores |-> MaxScores(d, params, entries)]]

\* The decimal digits of x.
RECURSIVE Digits(_)
Digits(x) == IF x < 10 THEN <<x>> ELSE Digits(x \div 10) \o <<x % 10>>

\* get_id_formatter("<prefix>:<n>")(x): the prefix, then x in decimal, padded
\* with zeros to n digits.
id_formatter(prefix, n, x) ==
    [prefix |-> prefix, digits |-> [k \in 1..(n - Len(Digits(x))) |-> 0] \o Digits(x)]

\* found_info of a text in which nothing is looked for.
EmptyInfo == [date |-> "", collectors |-> "", geo |-> ""]

\* parse_info(text) as main binds it: with none of -d, -g and -c every field
\* is empty; otherwise the fields are what the parsers read in this text, kept
\* here as the text they read.
parse_info(text, opts) ==
    IF opts.parse THEN [read_in |-> text] ELSE EmptyInfo

\* The values in non-decreasing order.
RECURSIVE SortedFracs(_, _)
SortedFracs(vals, acc) ==
    IF vals = <<>> THEN acc
    ELSE LET v  == Head(vals)
             lo == SelectSeq(acc, LAMBDA a : FracLeq(a, v))
             hi == SelectSeq(acc, LAMBDA a : FracLess(v, a))
         IN  SortedFracs(Tail(vals), lo \o <<v>> \o hi)

\* np.median of a list that is not empty
Median(vals) ==
    LET sorted == SortedFracs(vals, <<>>)
        n      == Len(sorted)
    IN  IF n % 2 = 1 THEN sorted[(n + 1) \div 2]
        ELSE FracMul(FracAdd(sorted[n \div 2], sorted[n \div 2 + 1]), <<1, 2>>)

\* get_median_dists(get_pairwise_leven_dist(lines)): for each line, the median
\* of its normalised distances to the other lines.
get_median_dists(lines) ==
    AsSeq([i \in 1..Len(lines) |->
        Median(AsSeq([j \in 1..(Len(lines) - 1) |->
            get_norm_leven_dist(lines[i], lines[IF j < i THEN j ELSE j + 1], FALSE)]))])

\* text_pick_consensus(lines, simplify=True): the lines are sorted by median
\* distance (a stable sort) and the last one is returned.
text_pick_consensus(lines) ==
    LET simple == AsSeq([i \in 1..Len(lines) |-> simplify_str(lines[i])])
        med    == get_median_dists(simple)
        last   == CHOOSE i \in 1..Len(lines) :
                      /\ \A j \in 1..Len(lines) : FracLeq(med[j], med[i])
                      /\ \A j \in (i + 1)..Len(lines) : FracLess(med[j], med[i])
    IN  simple[last]

\* refine(labels): fewer than 8 labels are left in one cluster.
refine(labels) == <<labels>>

\* The loop over the labels of one cluster: found_info is parsed from a label
\* only while it is None.
RECURSIVE WriteLabels(_, _, _, _, _)
WriteLabels(d, cluster, group_id, found_info, opts) ==
    IF cluster = <<>> THEN <<>>
    ELSE LET info == IF found_info.none
                     THEN [none |-> FALSE, value |-> parse_info(d[Head(cluster)].text, opts)]
                     ELSE found_info
         IN  << [label |-> Head(cluster), group_id |-> group_id, found_info |-> info.value] >>
             \o WriteLabels(d, Tail(cluster), group_id, info, opts)

\* The loop over the clusters of one iteration, the last group being number i.
RECURSIVE WriteClusters(_, _, _, _)
WriteClusters(d, clusters, i, opts) ==
    IF clusters = <<>> THEN <<>>
    ELSE LET cluster    == Head(clusters)
             group_id   == id_formatter("label", opts.id_digits, i + 1)
             found_info ==
                 IF opts.consensus # "none" /\ Len(cluster) >= opts.quorum
                 THEN [none |-> FALSE,
                       value |-> parse_info(
                           text_pick_consensus(
                               AsSeq([k \in 1..Len(cluster) |-> d[cluster[k]].text])), opts)]
                 ELSE [none |-> TRUE, value |-> EmptyInfo]
         IN  WriteLabels(d, cluster, group_id, found_info, opts)
             \o WriteClusters(d, Tail(clusters), i + 1, opts)

\* to_be_sorted.pop(k)
PopAt(s, k) == SubSeq(s, 1, k - 1) \o SubSeq(s, k + 1, Len(s))

\* Variant of InToBeSorted: every label is eligible.
AnyLabel(rest, d) == 1..Len(d)

\* filtering = lambda x: x.ID in to_be_sorted, after the seed was popped
InToBeSorted(rest, d) == Range(rest)

\* The labels of the result whose score is min_score or more, in result order.
RECURSIVE MatchesOf(_, _)
MatchesOf(result, min_score) ==
    IF result = <<>> THEN <<>>
    ELSE (IF FracLeq(min_score, Head(result)[2]) THEN <<Head(result)[1]>> ELSE <<>>)
         \o MatchesOf(Tail(result), min_score)

\* Variant of Remaining: the collection is left as it is.
Untouched(unsorted, k, matches) == unsorted

\* to_be_sorted after one iteration: the seed popped, the matched labels removed.
Remaining(unsorted, k, matches) ==
    SelectSeq(PopAt(unsorted, k), LAMBDA x : x \notin Range(matches))

\* The most groups a run of the model numbers.
MaxGroups == 5

SortOptions ==
    [script : {"sort_labels"}, min_word_length : MinLens,
     min_score : {<<1, 2>>, <<4, 5>>, <<2, 1>>}, refine : BOOLEAN,
     consensus : {"none", "pick"}, quorum : {2, 3}, parse : BOOLEAN, id_digits : {1}]

\* sort_labels.main up to the clustering loop: the index is built with
\* method 2 and the header is written.
SortLabelsMain(opts) ==
    /\ pc = "none"
    /\ lastOp = "none"
    /\ LET made == IndexOutcome(db, 2, opts.min_word_length, DefaultKeys(ElementKeys, TRUE))
       IN  /\ index' = made.index
           /\ parameters' = made.parameters
           /\ max_scores' = made.max_scores
           /\ built' = (made.error = "")
           /\ completed' = (made.error = "")
           /\ lastError' = made.error
           /\ pc' = IF made.error # "" THEN "raised"
                    ELSE IF Len(db) = 0 THEN "done" ELSE "sorting"
           /\ stdout' = IF made.error # "" THEN <<>> ELSE << [header |-> TRUE] >>
           /\ to_be_sorted' = IF made.error # "" THEN <<>> ELSE [k \in 1..Len(db) |-> k]
    /\ options' = opts
    /\ group_no' = 0
    /\ UNCHANGED <<db, file, origin, lastOp, lastArgs, lastResult, filterCalls,
                   lastMatched, pending, unmatched, date_index>>

\* One iteration of the loop of sort_by_text_similarity, the seed being the
\* k-th label of to_be_sorted.
SortIteration(k) ==
    /\ pc = "sorting"
    /\ group_no < MaxGroups
    /\ k \in 1..Len(to_be_sorted)
    /\ LET seed     == to_be_sorted[k]
           rest     == PopAt(to_be_sorted, k)
           found    == SearchOutcome(db, index.entries, parameters, max_scores,
                                     db[seed].text, FALSE, InToBeSorted(rest, db), "w")
           matches  == MatchesOf(found.result, options.min_score) \o <<seed>>
           clusters == IF options.refine THEN refine(matches) ELSE <<matches>>
           left     == Remaining(to_be_sorted, k, matches)
       IN  IF found.error # ""
           THEN /\ lastError' = found.error
                /\ pc' = "raised"
                /\ to_be_sorted' = rest
                /\ UNCHANGED <<stdout, group_no>>
           ELSE /\ stdout' = stdout \o WriteClusters(db, clusters, group_no, options)
                /\ group_no' = group_no + Len(clusters)
                /\ to_be_sorted' = left
                /\ pc' = IF left = <<>> THEN "done" ELSE "sorting"
                /\ UNCHANGED lastError
    /\ UNCHANGED <<db, index, parameters, max_scores, file, built, completed, origin,
                   lastOp, lastArgs, lastResult, filterCalls, lastMatched,
                   options, pending, unmatched, date_index>>

\* randrange(len(to_be_sorted)) picks the seed.
SortStep == \E k \in 1..Len(to_be_sorted) : SortIteration(k)

\* sort_labels on a database of labels.
InitSort == Constructed({DbRepeats, DbOrder})

NextSort ==
    \/ \E opts \in SortOptions : SortLabelsMain(opts)
    \/ SortStep

SpecSort == InitSort /\ [][NextSort]_vars

\* The states in which SortStep is enabled: the loop condition holds.
LoopCanRun == pc = "sorting" /\ group_no < MaxGroups /\ to_be_sorted # <<>>

\* The loop goes on while it can: WF_vars(SortStep), the enabling condition of
\* SortStep written out as LoopCanRun.
SpecSortFair == SpecSort /\ ([]<>(~LoopCanRun) \/ []<><<SortStep>>_vars)

\* Whether the word w is written in the text.
HoldsWord(text, w) ==
    \E i \in 1..(Len(text) - Len(w) + 1) : SubSeq(text, i, i + Len(w) - 1) = w

Jan == <<10, 1, 14>>

Jun == <<10, 21, 14>>

NoDate == [found |-> FALSE, date |-> <<>>]

\* mfnb.date.find_date on the texts of the model: "jan" is read as 10 January
\* 1900 and "jun" as 20 June 1900, a Date being kept as the DateRange that
\* overlap_with makes of it; any other text holds no date.
find_date(text) ==
    IF HoldsWord(text, Jan)
    THEN [found |-> TRUE,
          date |-> DateRange([year |-> 1900, month |-> 1, day |-> 10],
                             [year |-> 1900, month |-> 1, day |-> 10], TRUE, 2)]
    ELSE IF HoldsWord(text, Jun)
    THEN [found |-> TRUE,
          date |-> DateRange([year |-> 1900, month |-> 6, day |-> 20],
                             [year |-> 1900, month |-> 6, day |-> 20], TRUE, 2)]
    ELSE NoDate

\* make_date_index: the date range and the record of every collecting event
\* whose date field holds a date, from record i on.
RECURSIVE make_date_index(_, _)
make_date_index(d, i) ==
    IF i > Len(d) THEN <<>>
    ELSE (IF find_date(d[i].date).found
          THEN << [daterange |-> find_date(d[i].date).date, record |-> i] >>
          ELSE <<>>)
         \o make_date_index(d, i + 1)

\* search_by_date(query, assume_same_century): the records of the date index
\* whose range overlaps with the query, in index order.
RECURSIVE search_by_date(_, _, _)
search_by_date(dindex, query, assume_same_century) ==
    IF dindex = <<>> THEN <<>>
    ELSE (IF overlap_with(Head(dindex).daterange, query, assume_same_century)
          THEN <<Head(dindex).record>> ELSE <<>>)
         \o search_by_date(Tail(dindex), query, assume_same_century)

\* Two collecting events: "abcd ber" of January and "efgh" of June.
DbEvents ==
    << [ID |-> <<5, 1>>, location |-> <<2, 5, 18>>, date |-> Jan, collector |-> <<19, 13>>,
        text |-> <<1, 2, 3, 4, 0, 2, 5, 18>>],
       [ID |-> <<5, 2>>, location |-> <<16, 1, 18>>, date |-> Jun, collector |-> <<19, 13>>,
        text |-> <<5, 6, 7, 8>>] >>

\* The labels of the input files: one that matches the first event by text
\* and by date, one that matches it by text and the second one by date, one
\* that matches nothing and holds no date.
LabelPool ==
    { [ID |-> <<12, 1>>, text |-> <<1, 2, 3, 4, 0, 10, 1, 14>>],
      [ID |-> <<12, 2>>, text |-> <<1, 2, 3, 4, 0, 10, 21, 14>>],
      [ID |-> <<12, 3>>, text |-> <<26, 26, 26, 26>>] }

\* The most labels in the input of one run.
MaxLabels == 2

RECURSIVE LabelLists(_)
LabelLists(n) ==
    IF n = 0 THEN {<<>>}
    ELSE LET shorter == LabelLists(n - 1)
         IN  shorter \cup {Append(ls, l) : ls \in {x \in shorter : Len(x) = n - 1},
                                           l \in LabelPool}

MatchOptions ==
    [script : {"match_collecting_events"}, date_search : BOOLEAN, method : Methods,
     persist : BOOLEAN, scoring : {"w", "l"}, text_fields : {<<"text">>},
     text_search : BOOLEAN]

\* match_collecting_events.main up to the loop over the labels: both indexes
\* are built and the header is written.
MatchEventsMain(opts, labels) ==
    /\ pc = "none"
    /\ lastOp = "none"
    /\ LET made == IndexOutcome(db, opts.method, 3, opts.text_fields)
       IN  /\ index' = made.index
           /\ parameters' = made.parameters
           /\ max_scores' = made.max_scores
           /\ built' = (made.error = "")
           /\ completed' = (made.error = "")
           /\ lastError' = made.error
           /\ pc' = IF made.error # "" THEN "raised"
                    ELSE IF labels = <<>> THEN "done" ELSE "matching"
           /\ stdout' = IF made.error # "" THEN <<>> ELSE << [header |-> TRUE] >>
           /\ date_index' = IF made.error # "" THEN <<>> ELSE make_date_index(db, 1)
           /\ unmatched' = [labels |-> {},
                            ce |-> IF made.error # "" THEN {}
                                   ELSE {db[i].ID : i \in 1..Len(db)}]
           /\ pending' = IF made.error # "" THEN <<>> ELSE labels
    /\ options' = opts
    /\ UNCHANGED <<db, file, origin, lastOp, lastArgs, lastResult, filterCalls,
                   lastMatched, to_be_sorted, group_no>>

\* The hits of one label and the exception raised while they are looked for:
\* hits by date are records, hits by text are pairs of a record and a score.
LabelHits(label) ==
    LET found    == find_date(label.text)
        limited  == options.date_search /\ found.found
        by_date  == IF limited THEN search_by_date(date_index, found.date, TRUE) ELSE <<>>
        first    == SearchOutcome(db, index.entries, parameters, max_scores, label.text,
                                  FALSE, IF limited THEN Range(by_date) ELSE AllRecords,
                                  options.scoring)
        again    == SearchOutcome(db, index.entries, parameters, max_scores, label.text,
                                  FALSE, AllRecords, options.scoring)
    IN  IF ~options.text_search
        THEN [error |-> "", scored |-> FALSE, hits |-> by_date]
        ELSE IF first.error # ""
        THEN [error |-> first.error, scored |-> TRUE, hits |-> <<>>]
        \* all((persist, date_search, date is not None, not hits)): the tuple is
        \* built first, and date is a local variable assigned only under date_search
        ELSE IF ~options.date_search
        THEN [error |-> "UnboundLocalError", scored |-> TRUE, hits |-> first.result]
        ELSE IF options.persist /\ found.found /\ first.result = <<>>
        THEN [error |-> again.error, scored |-> TRUE, hits |-> again.result]
        ELSE [error |-> "", scored |-> TRUE, hits |-> first.result]

\* The exception that ends the iteration, if any: that of the searches, or
\* that of "for ce, score in hits" on hits by date, a CollectingEvent being
\* no pair.
IterationError(outcome) ==
    IF outcome.error # "" THEN outcome.error
    ELSE IF ~outcome.scored /\ outcome.hits # <<>> THEN "TypeError"
    ELSE ""

\* One iteration of the loop of main over the labels of the input.
MatchLabel ==
    /\ pc = "matching"
    /\ pending # <<>>
    /\ \E outcome \in {LabelHits(Head(pending))} : \E error \in {IterationError(outcome)} :
           /\ lastError' = error
           /\ unmatched' =
                  [labels |-> unmatched.labels
                              \cup (IF outcome.error = "" /\ outcome.hits = <<>>
                                    THEN {Head(pending).ID} ELSE {}),
                   ce |-> unmatched.ce
                          \ (IF error = ""
                             THEN {db[outcome.hits[n][1]].ID : n \in 1..Len(outcome.hits)}
                             ELSE {})]
           /\ stdout' = IF error # "" THEN stdout
                        ELSE stdout \o AsSeq([n \in 1..Len(outcome.hits) |->
                                 [label |-> Head(pending).ID, ce |-> outcome.hits[n][1],
                                  score |-> outcome.hits[n][2]]])
           /\ pc' = IF error # "" THEN "raised"
                    ELSE IF Tail(pending) = <<>> THEN "done" ELSE "matching"
    /\ pending' = Tail(pending)
    /\ UNCHANGED <<db, index, parameters, max_scores, file, built, completed, origin,
                   lastOp, lastArgs, lastResult, filterCalls, lastMatched,
                   options, to_be_sorted, group_no, date_index>>

\* match_collecting_events on a database of collecting events.
InitEvents == Constructed({DbEvents})

NextEvents ==
    \/ \E opts \in MatchOptions : \E labels \in LabelLists(MaxLabels) :
           MatchEventsMain(opts, labels)
    \/ MatchLabel

SpecEvents == InitEvents /\ [][NextEvents]_vars

-----------------------------------------------------------------------------
(* Properties *)

Corpus == get_corpus(db, parameters.keys, parameters.masks)

\* The scores a result list gives record x (none when x is not in the list).
ScoresOf(result, x) == {result[k][2] : k \in {n \in 1..Len(result) : result[n][1] = x}}

InUnitInterval(x) == FracLeq(<<0, 1>>, x) /\ FracLeq(x, <<1, 1>>)

\* The call that returned is search(corpus text of r, scoring='w',
\* mismatch_rule=None) with the accept-all predicate, on an index that a
\* completed make_index built.
SelfSearchOf(r) ==
    /\ lastOp = "search"
    /\ built
    /\ lastArgs.scoring = "w"
    /\ lastArgs.exact
    /\ lastArgs.filtering = AllRecords
    /\ lastArgs.query = Corpus[r]

\* C1, as the specification states it: searching with the corpus text of a
\* record R (scoring 'w', exact matching) returns a list whose first element
\* is R with score 1.
C1_SelfFirst ==
    \A r \in AllRecords :
        SelfSearchOf(r) =>
            /\ lastError = ""
            /\ lastResult # <<>>
            /\ lastResult[1] = <<r, <<1, 1>>>>

\* C1, amended: when the corpus text of R has at least one token, searching
\* with it (scoring 'w', exact matching, accept-all predicate) returns a list
\* that contains R with score 1, and no element of the list scores above 1.
C1_SelfTop ==
    \A r \in AllRecords :
        (SelfSearchOf(r) /\ get_item_tokens(db, parameters, r) # <<>>) =>
            /\ lastError = ""
            /\ \E k \in 1..Len(lastResult) : lastResult[k] = <<r, <<1, 1>>>>
            /\ \A k \in 1..Len(lastResult) : FracLeq(lastResult[k][2], <<1, 1>>)

\* A self search that returns R with score 1 behind another record.
C1_Witness ==
    \E r \in AllRecords :
        /\ SelfSearchOf(r)
        /\ Len(lastResult) >= 2
        /\ lastResult[2] = <<r, <<1, 1>>>>

StoredWeight(entries, i, t) ==
    LET js == {j \in 1..Len(entries) : entries[j].token = t}
        ws == UNION {{entries[j].hits[k][2] :
                        k \in {n \in 1..Len(entries[j].hits) : entries[j].hits[n][1] = i}} :
                     j \in js}
    IN  IF ws = {} THEN 0 ELSE CHOOSE w \in ws : TRUE

\* The sum of the weights stored for record i, one per token of the index.
RECURSIVE StoredSum(_, _, _)
StoredSum(entries, i, j) ==
    IF j > Len(entries) THEN 0
    ELSE StoredWeight(entries, i, entries[j].token) + StoredSum(entries, i, j + 1)

\* The sum of the stored weights over the token occurrences of a text.
RECURSIVE OccurrenceSum(_, _, _)
OccurrenceSum(entries, i, tokens) ==
    IF tokens = <<>> THEN 0
    ELSE StoredWeight(entries, i, Head(tokens)) + OccurrenceSum(entries, i, Tail(tokens))

MadeIndex == lastOp = "make_index" /\ lastError = ""

C4_RaisesWithoutIndex ==
    (lastOp = "search" /\ ~completed) => lastError # ""

\* C5: search leaves the index, the parameters and the maximum scores of a
\* built index as they were.
C5_ReadOnly ==
    [][(built /\ lastOp' = "search") =>
          (index' = index /\ parameters' = parameters /\ max_scores' = max_scores)]_vars

\* C6: no record the predicate rejects is in the result, and every record it
\* accepts has the score it has for the same query with the accept-all
\* predicate (and is absent when absent there).
C6_FilterOnlyEligibility ==
    (lastOp = "search" /\ is_indexed /\ lastError = "") =>
        LET all == SearchOutcome(db, index.entries, parameters, max_scores,
                                 lastArgs.query, lastArgs.exact, AllRecords,
                                 lastArgs.scoring)
        IN  /\ \A k \in 1..Len(lastResult) : lastResult[k][1] \in lastArgs.filtering
            /\ all.error = ""
            /\ \A x \in lastArgs.filtering :
                  ScoresOf(lastResult, x) = ScoresOf(all.result, x)

\* A search whose predicate rejects record 1 returned another record, while
\* the same search with the accept-all predicate returns record 1 as well.
C6_Witness ==
    /\ lastOp = "search"
    /\ is_indexed
    /\ 1 \notin lastArgs.filtering
    /\ lastResult # <<>>
    /\ ScoresOf(SearchOutcome(db, index.entries, parameters, max_scores,
                              lastArgs.query, lastArgs.exact, AllRecords,
                              lastArgs.scoring).result, 1) # {}

\* C7: during one search the predicate is called at most once for each record.
C7_FilterOncePerRecord ==
    lastOp = "search" => \A x \in AllRecords : filterCalls[x] <= 1

C9_DumpSucceeds ==
    (lastOp = "dump_index" /\ built) => lastError = ""

\* floor(log2 n), for n >= 1
FloorLog2(n) == CHOOSE k \in 0..n : 2^k <= n /\ n < 2^(k + 1)

\* max(0, floor(log2 n) - 1)
Budget(n) == Max2(0, FloorLog2(n) - 1)

TokenLenBound == 32

\* C10: with the default mismatch_rule a query token of length n matches an
\* index token if and only if their edit distance is at most
\* max(0, floor(log2 n) - 1); under 4 characters only the identical token
\* matches, 8 characters allow at least one edit, 16 at least two, and the
\* budget never decreases as n grows.
C10_FuzzyBudget ==
    (lastOp = "search" /\ is_indexed /\ ~lastArgs.exact) =>
        /\ \A n \in 1..Len(lastMatched) :
              LET q == lastMatched[n].q
              IN  \A j \in 1..Len(index.entries) :
                     LET t == index.entries[j].token
                     IN  t \in lastMatched[n].tokens
                            <=> levenshtein(q, t) <= Budget(Len(q))
        /\ \A n \in 1..Len(lastMatched) :
              Len(lastMatched[n].q) < 4 =>
                  lastMatched[n].tokens \subseteq {lastMatched[n].q}
        /\ \A n \in 1..TokenLenBound :
              mismatch_rule([i \in 1..n |-> 1]) <= mismatch_rule([i \in 1..(n + 1) |-> 1])
        /\ mismatch_rule([i \in 1..8 |-> 1]) >= 1
        /\ mismatch_rule([i \in 1..16 |-> 1]) >= 2

\* A search in which a token of 16 letters matched an index token at 3 edits
\* and did not match one at 4 edits.
C10_Witness ==
    /\ lastOp = "search"
    /\ ~lastArgs.exact
    /\ \E n \in 1..Len(lastMatched) :
          /\ Len(lastMatched[n].q) = 16
          /\ \E t \in lastMatched[n].tokens : levenshtein(lastMatched[n].q, t) = 3
          /\ \E j \in 1..Len(index.entries) :
                /\ index.entries[j].token \notin lastMatched[n].tokens
                /\ levenshtein(lastMatched[n].q, index.entries[j].token) = 4

\* The matches get_token_matches returned for the n-th query token of the
\* search that returned.
LastMatches(n) ==
    get_token_matches(index.entries, QueryTokens(parameters, lastArgs.query)[n],
                      lastArgs.exact, lastArgs.filtering)

LastQueryTokens == QueryTokens(parameters, lastArgs.query)

\* C11: every match (token, identity, weight) of get_token_matches has
\* identity = (L - d) / L, d the edit distance between the query token and the
\* matched index token and L the longer of their lengths; the identity lies
\* in [0, 1], is 1 exactly when the two tokens are identical, and is always 1
\* in exact mode.
C11_Identity ==
    (lastOp = "search" /\ is_indexed) =>
        \A n \in 1..Len(LastQueryTokens) :
            LET q  == LastQueryTokens[n]
                ms == LastMatches(n)
            IN  \A k \in 1..Len(ms) :
                   LET d == levenshtein(q, ms[k].token)
                       L == Max2(Len(q), Len(ms[k].token))
                   IN  /\ ms[k].identity = Frac(L - d, L)
                       /\ InUnitInterval(ms[k].identity)
                       /\ (ms[k].identity = <<1, 1>>) <=> (ms[k].token = q)
                       /\ lastArgs.exact => ms[k].identity = <<1, 1>>

\* A search with the default mismatch_rule in which a query token of 4
\* letters matched an index token of 3 letters, with identity 3/4.
C11_Witness ==
    /\ lastOp = "search"
    /\ is_indexed
    /\ ~lastArgs.exact
    /\ \E n \in 1..Len(LastQueryTokens) :
          \E k \in 1..Len(LastMatches(n)) :
              /\ Len(LastQueryTokens[n]) = 4
              /\ Len(LastMatches(n)[k].token) = 3
              /\ LastMatches(n)[k].identity = <<3, 4>>

\* The value selects the index token: the same token in exact mode, a token
\* within the budget of edits otherwise.
Selects(q, t, exact) ==
    IF exact THEN t = q ELSE levenshtein(q, t) <= Budget(Len(q))

\* The (token, identity, weight) candidates of record x for the query token q:
\* one per index token that q selects and that lists x.
CandidatesOf(q, x, exact) ==
    {[token |-> index.entries[j].token,
      identity |-> Frac(Max2(Len(q), Len(index.entries[j].token))
                          - levenshtein(q, index.entries[j].token),
                        Max2(Len(q), Len(index.entries[j].token))),
      score |-> index.entries[j].hits[k][2]] :
        <<j, k>> \in {p \in (1..Len(index.entries)) \X (1..Len(db)) :
                        /\ p[2] <= Len(index.entries[p[1]].hits)
                        /\ index.entries[p[1]].hits[p[2]][1] = x
                        /\ Selects(q, index.entries[p[1]].token, exact)}}

\* C12: for every query token, get_token_matches returns at most one match
\* per eligible record; the match is one of the record's candidates, no
\* candidate of the record has a higher identity, and none of the same
\* identity has a higher weight.
C12_BestMatchPerRecord ==
    (lastOp = "search" /\ is_indexed) =>
        \A n \in 1..Len(LastQueryTokens) :
            LET q  == LastQueryTokens[n]
                ms == LastMatches(n)
            IN  /\ \A k1, k2 \in 1..Len(ms) : ms[k1].x = ms[k2].x => k1 = k2
                /\ \A k \in 1..Len(ms) :
                      LET cs == CandidatesOf(q, ms[k].x, lastArgs.exact)
                      IN  /\ ms[k].x \in lastArgs.filtering
                          /\ [token |-> ms[k].token, identity |-> ms[k].identity,
                              score |-> ms[k].score] \in cs
                          /\ \A c \in cs :
                                /\ FracLeq(c.identity, ms[k].identity)
                                /\ c.identity = ms[k].identity => c.score <= ms[k].score

\* A query token selected two index tokens of one record at the same identity
\* and with different weights, and the match returned has the higher weight.
C12_Witness ==
    /\ lastOp = "search"
    /\ is_indexed
    /\ \E n \in 1..Len(LastQueryTokens) :
          \E k \in 1..Len(LastMatches(n)) :
              LET m == LastMatches(n)[k]
              IN  \E c \in CandidatesOf(LastQueryTokens[n], m.x, lastArgs.exact) :
                     /\ c.token # m.token
                     /\ c.identity = m.identity
                     /\ c.score < m.score

\* hit_scoring of the search that returned.
LastHitScoring ==
    HitScoring(db, index.entries, parameters, LastQueryTokens, lastArgs.exact,
               lastArgs.filtering, lastArgs.scoring)

\* matched_tokens[x]: the matches of record x, one at most per query token.
LastMatchesOf(x) ==
    OfRecord(AllMatches(index.entries, LastQueryTokens, lastArgs.exact,
                        lastArgs.filtering), x)

\* Over the tokens ts, the number of matches on the token that its
\* occurrences in the record allow: min(matches on t, occurrences of t).
RECURSIVE Countable(_, _, _)
Countable(ms, subject_tokens, ts) ==
    IF ts = <<>> THEN 0
    ELSE Min2(Cardinality({k \in 1..Len(ms) : ms[k].token = Head(ts)}),
              CountIn(subject_tokens, Head(ts)))
         + Countable(ms, subject_tokens, Tail(ts))

\* C13: the matches counted for a record are no more, token by token, than
\* the occurrences of the token in the record's tokenized text, so the
\* matched-token count is at most the sum over the tokens of
\* min(matches, occurrences); and for a record that holds t once, the query
\* "t t" scores no more (scoring 'w') than the query "t".
C13_OneMatchPerOccurrence ==
    (lastOp = "search" /\ is_indexed /\ lastError = "") =>
        /\ \A n \in 1..Len(LastHitScoring) :
              LET h  == LastHitScoring[n]
                  ms == LastMatchesOf(h.x)
              IN  h.hit.n <= Countable(ms, get_item_tokens(db, parameters, h.x),
                                       SortedTokens({ms[k].token : k \in 1..Len(ms)}))
        /\ (/\ lastArgs.scoring = "w"
            /\ Len(LastQueryTokens) = 2
            /\ LastQueryTokens[1] = LastQueryTokens[2]) =>
              LET once == SearchOutcome(db, index.entries, parameters, max_scores,
                                        LastQueryTokens[1], lastArgs.exact,
                                        lastArgs.filtering, "w").result
              IN  \A k \in 1..Len(lastResult) :
                     LET x == lastResult[k][1]
                     IN  CountIn(get_item_tokens(db, parameters, x), LastQueryTokens[1]) = 1
                           => \A s1 \in ScoresOf(once, x) : FracLeq(lastResult[k][2], s1)

\* The query "t t" returned a record that holds t once, with half the score
\* the query "t" gives it.
C13_Witness ==
    /\ lastOp = "search"
    /\ is_indexed
    /\ lastArgs.scoring = "w"
    /\ Len(LastQueryTokens) = 2
    /\ LastQueryTokens[1] = LastQueryTokens[2]
    /\ \E k \in 1..Len(lastResult) :
          /\ CountIn(get_item_tokens(db, parameters, lastResult[k][1]),
                     LastQueryTokens[1]) = 1
          /\ ScoresOf(SearchOutcome(db, index.entries, parameters, max_scores,
                                    LastQueryTokens[1], lastArgs.exact,
                                    lastArgs.filtering, "w").result, lastResult[k][1])
               = {FracMul(lastResult[k][2], <<2, 1>>)}

\* The k-th match of a record is counted when fewer matches on the same token
\* come before it than the record's tokenized text holds occurrences of it.
IsCounted(ms, subject_tokens, k) ==
    Cardinality({j \in 1..(k - 1) : ms[j].token = ms[k].token})
        < CountIn(subject_tokens, ms[k].token)

\* The sum of weight x identity over the counted matches among the first k.
RECURSIVE RawScore(_, _, _)
RawScore(ms, subject_tokens, k) ==
    IF k = 0 THEN <<0, 1>>
    ELSE FracAdd(RawScore(ms, subject_tokens, k - 1),
                 IF IsCounted(ms, subject_tokens, k)
                 THEN FracMul(<<ms[k].score, 1>>, ms[k].identity)
                 ELSE <<0, 1>>)

CountedNumber(ms, subject_tokens) ==
    Cardinality({k \in 1..Len(ms) : IsCounted(ms, subject_tokens, k)})

\* C14: with scoring 'w' the score of a record is
\* (raw_score / record_max_score) x (matched_token_count / total_query_tokens):
\* raw_score the sum of weight x identity over the record's counted matches,
\* matched_token_count their number, total_query_tokens the number of tokens
\* of the query, a repeated token counted each time; the records returned
\* are those with a counted match.
C14_WeightedScore ==
    (lastOp = "search" /\ is_indexed /\ lastError = "" /\ lastArgs.scoring = "w") =>
        \A x \in AllRecords :
            LET ms     == LastMatchesOf(x)
                tokens == get_item_tokens(db, parameters, x)
                n      == CountedNumber(ms, tokens)
            IN  IF n = 0 THEN ScoresOf(lastResult, x) = {}
                ELSE ScoresOf(lastResult, x) =
                        {FracMul(FracMul(RawScore(ms, tokens, Len(ms)),
                                         <<1, max_scores.scores[db[x].ID]>>),
                                 <<n, Len(LastQueryTokens)>>)}

\* A 'w' search of two query tokens returned a record on which both were
\* counted with an identity below 1, and a record on which one was counted.
C14_Witness ==
    /\ lastOp = "search"
    /\ is_indexed
    /\ lastArgs.scoring = "w"
    /\ Len(LastQueryTokens) = 2
    /\ Len(lastResult) = 2
    /\ \E x \in AllRecords :
          /\ CountedNumber(LastMatchesOf(x), get_item_tokens(db, parameters, x)) = 2
          /\ \A k \in 1..Len(LastMatchesOf(x)) : LastMatchesOf(x)[k].identity # <<1, 1>>
    /\ \E x \in AllRecords :
          /\ Len(LastMatchesOf(x)) = 2
          /\ CountedNumber(LastMatchesOf(x), get_item_tokens(db, parameters, x)) = 1

\* What the search that returned gives under another scoring method.
LastOutcomeWith(scoring) ==
    SearchOutcome(db, index.entries, parameters, max_scores, lastArgs.query,
                  lastArgs.exact, lastArgs.filtering, scoring)

\* C15: the score a record gets with scoring 'w+l' is the product of the
\* scores it gets with 'w' and with 'l' for the same query, for exact and for
\* approximate token matches.
C15_CombinedIsProduct ==
    (lastOp = "search" /\ is_indexed /\ lastError = "" /\ lastArgs.scoring = "w+l") =>
        \A k \in 1..Len(lastResult) :
            LET x == lastResult[k][1]
            IN  \E w \in ScoresOf(LastOutcomeWith("w").result, x) :
                \E l \in ScoresOf(LastOutcomeWith("l").result, x) :
                    lastResult[k][2] = FracMul(w, l)

\* C16: search returns its results in non-increasing score order, and no
\* record is twice in a result list, for every scoring method.
C16_SortedDistinct ==
    lastOp = "search" =>
        /\ \A k \in 1..(Len(lastResult) - 1) :
              FracLeq(lastResult[k + 1][2], lastResult[k][2])
        /\ \A k1, k2 \in 1..Len(lastResult) :
              lastResult[k1][1] = lastResult[k2][1] => k1 = k2

\* A result of two records or more whose best record comes later in the
\* database than the second one, with a strictly higher score.
C16_Witness ==
    /\ lastOp = "search"
    /\ Len(lastResult) >= 2
    /\ lastResult[1][1] > lastResult[2][1]
    /\ FracLess(lastResult[2][2], lastResult[1][2])

\* C17: on an indexed database, search with a scoring value other than 'w',
\* 'l' or 'w+l' raises an error for every query, with or without tokens or
\* hits, and returns no result list.
C17_UnknownScoringRaises ==
    (lastOp = "search" /\ is_indexed /\ lastArgs.scoring \notin {"w", "l", "w+l"}) =>
        lastError # "" /\ lastResult = <<>>

\* An unknown scoring value raised on a query that has hits in the index.
C17_Witness ==
    /\ lastOp = "search"
    /\ built
    /\ lastArgs.scoring \in OtherScorings
    /\ lastError = "ValueError"
    /\ \E n \in DOMAIN lastMatched : lastMatched[n].tokens # {}

\* C18: a record whose indexed attribute is None is treated as having the
\* empty string for it: get_corpus, make_index and search (with a known
\* scoring) complete without error, and the index lists the record under no
\* token for that attribute.
C18_MissingAsEmpty ==
    \A i \in 1..Len(db) :
        db[i].text = None =>
            /\ lastOp \in {"get_corpus", "make_index"} => lastError = ""
            /\ (lastOp = "search" /\ lastArgs.scoring \in Scorings) => lastError = ""
            /\ lastOp = "make_index" => built
            /\ \A j \in DOMAIN index.entries :
                   \A k \in DOMAIN index.entries[j].hits : index.entries[j].hits[k][1] # i

\* C19: after make_index, every (record, weight) pair listed under a token of
\* the index has a record whose tokenized, masked text of the indexed keys
\* holds the token, and a weight above 0; no record is listed twice under one
\* token.
C19_IndexEntriesSound ==
    built =>
        \A j \in DOMAIN index.entries :
            LET token == index.entries[j].token
                hits  == index.entries[j].hits
            IN  \A k \in DOMAIN hits :
                    /\ CountIn(get_item_tokens(db, parameters, hits[k][1]), token) > 0
                    /\ hits[k][2] > 0
                    /\ \A k2 \in DOMAIN hits : hits[k2][1] = hits[k][1] => k2 = k

\* make_index has just built, with a mask, an index in which a token lists
\* two records and another token a single one.
C19_Witness ==
    /\ lastOp = "make_index"
    /\ built
    /\ parameters.masks # <<>>
    /\ \E j \in DOMAIN index.entries : Len(index.entries[j].hits) >= 2
    /\ \E j \in DOMAIN index.entries : Len(index.entries[j].hits) = 1

\* The tokens that occur in the ID of a record and in the text of none.
IdOnlyTokens ==
    LET pattern == get_word_tokenize_pattern(1)
    IN  {t \in UNION {Range(VectorizerTokens(db[i].ID, pattern)) : i \in 1..Len(db)} :
            \A i \in 1..Len(db) :
                db[i].text # None => CountIn(VectorizerTokens(db[i].text, pattern), t) = 0}

\* C20: with no keys given, get_corpus() and make_index() build a record's
\* text from every key but the ID: a token that occurs only in an ID is in no
\* text of the corpus and is no token of the index.
C20_DefaultKeysExcludeID ==
    /\ (lastOp = "get_corpus" /\ ~lastArgs.given /\ lastError = "") =>
           \A i \in 1..Len(lastResult) : \A t \in IdOnlyTokens :
               CountIn(VectorizerTokens(lastResult[i], get_word_tokenize_pattern(1)), t) = 0
    /\ (built /\ index.default) =>
           \A t \in IdOnlyTokens :
               HasToken(index.entries, t) => EntryOf(index.entries, t).hits = <<>>

\* C21: subset(filtering) returns a new DB that holds exactly the records
\* filtering accepts, in their original order, and that has no index, whether
\* the source is indexed or not; the records and the index of the source are
\* left as they were.
C21_SubsetFrame ==
    [][lastOp' = "subset" =>
          LET sub == lastResult'.db
          IN  /\ {sub[k] : k \in DOMAIN sub} = {db[i] : i \in lastArgs'.filtering}
              /\ Len(sub) = Cardinality(lastArgs'.filtering)
              /\ \A k1, k2 \in DOMAIN sub :
                     k1 < k2 => get(db, sub[k1].ID) < get(db, sub[k2].ID)
              /\ ~lastResult'.index.exists
              /\ UNCHANGED <<db, index, parameters, max_scores>>]_vars

\* A subset of some records, not all, taken from a database with a built index.
C21_Witness ==
    /\ lastOp = "subset"
    /\ built
    /\ Len(lastResult.db) >= 2
    /\ Len(lastResult.db) < Len(db)
    /\ ~lastResult.index.exists

\* C22: DB(values, dbtype=None) with a non-empty list of records of one type
\* succeeds, and the element type of the database is the type of the first
\* value.
C22_TypeGuessed ==
    (/\ lastOp = "construct"
     /\ lastArgs.dbtype = "None"
     /\ lastArgs.values # <<>>
     /\ \A k \in DOMAIN lastArgs.values :
            TypeOf(lastArgs.values[k]) = TypeOf(lastArgs.values[1])) =>
        /\ lastError = ""
        /\ lastResult.element_type = TypeOf(lastArgs.values[1])

\* The rank of a date among the calendar days (months counted as 31 days).
DayRank(d) == (d.year * 12 + d.month) * 31 + d.day

\* The calendar days between the two dates of a range, both included.
DaysOf(r) ==
    Min2(DayRank(r.start), DayRank(r.end))..Max2(DayRank(r.start), DayRank(r.end))

\* C27: for two DateRange values of known century and day precision,
\* overlap_with returns True only if the two closed intervals share a calendar
\* day; ranges of the same year with disjoint months or days do not overlap.
C27_OverlapSharesDay ==
    (/\ lastOp = "overlap_with"
     /\ lastArgs.self.century_known /\ lastArgs.other.century_known
     /\ lastArgs.self.precision_level = 2 /\ lastArgs.other.precision_level = 2
     /\ lastResult = TRUE) =>
        DaysOf(lastArgs.self) \cap DaysOf(lastArgs.other) # {}

\* C28: a call of make_index or load_index that raises leaves the database as
\* it was: is_indexed() keeps its value, and the index, the parameters and the
\* maximum scores are unchanged.
C28_FailedIndexingChangesNothing ==
    [][(lastOp' \in {"make_index", "load_index"} /\ lastError' # "") =>
          UNCHANGED <<index, parameters, max_scores>>]_vars

\* The tokens of the last query, last first.
RECURSIVE ReverseSeq(_)
ReverseSeq(s) == IF s = <<>> THEN <<>> ELSE ReverseSeq(Tail(s)) \o <<Head(s)>>

\* What search returns for the tokens of the last query in the opposite order,
\* the other arguments being those of the last search.
LastOutcomeReversed ==
    SearchOutcome(db, index.entries, parameters, max_scores,
                  JoinTexts(ReverseSeq(LastQueryTokens)),
                  lastArgs.exact, lastArgs.filtering, lastArgs.scoring)

\* C29: with scoring 'w', the score of a record does not depend on the order
\* of the tokens of the query: the same tokens in another order give every
\* record the same score.
C29_TokenOrderIrrelevant ==
    (lastOp = "search" /\ built /\ lastError = "" /\ lastArgs.scoring = "w") =>
        /\ LastOutcomeReversed.error = ""
        /\ \A x \in AllRecords :
               ScoresOf(LastOutcomeReversed.result, x) = ScoresOf(lastResult, x)

\* Some token of the last query selects an index token that lists record x.
SharesMatchedToken(x) ==
    \E n \in 1..Len(LastQueryTokens) :
        CandidatesOf(LastQueryTokens[n], x, lastArgs.exact) # {}

\* C30: for the same index, query, predicate and matching mode, search returns
\* the same records under 'w', 'l' and 'w+l': the records the predicate accepts
\* that share a matched token with the query, and no other, whatever their
\* Levenshtein similarity to the query.
C30_SameRecordsInEveryMode ==
    (lastOp = "search" /\ is_indexed /\ lastError = "") =>
        \A scoring \in Scorings :
            /\ LastOutcomeWith(scoring).error = ""
            /\ \A x \in AllRecords :
                   ScoresOf(LastOutcomeWith(scoring).result, x) # {}
                       <=> (x \in lastArgs.filtering /\ SharesMatchedToken(x))

\* A search with scoring 'l' returned a record and left out a record that the
\* predicate accepts and whose text has a positive Levenshtein similarity to
\* the query.
C30_Witness ==
    /\ lastOp = "search"
    /\ built
    /\ lastArgs.scoring = "l"
    /\ lastResult # <<>>
    /\ \E x \in lastArgs.filtering :
          /\ ScoresOf(lastResult, x) = {}
          /\ FracLess(<<0, 1>>,
                      OneMinus(get_norm_leven_dist(lastArgs.query, db[x].text, TRUE)))

\* The lines of the output that carry a label.
LabelLines(out) == SelectSeq(out, LAMBDA l : "label" \in DOMAIN l)

C24_LoopTerminates ==
    /\ [][ pc = "sorting" =>
             /\ Len(to_be_sorted') < Len(to_be_sorted)
             /\ Range(to_be_sorted') \subseteq Range(to_be_sorted)
             /\ (pc' = "done") = (to_be_sorted' = <<>>) ]_vars
    /\ (pc = "sorting") ~> (pc \in {"done", "raised"})

\* A run that left the loop after more than one iteration.
C24_Witness ==
    /\ pc = "done"
    /\ options.script = "sort_labels"
    /\ to_be_sorted = <<>>
    /\ group_no >= 2

\* C26: a label written in a cluster for which no consensus is built (no
\* consensus method, or fewer labels than the quorum) carries the result of
\* parsing its own text.
C26_OwnTextParsed ==
    options.script = "sort_labels" =>
        LET out == LabelLines(stdout)
        IN  \A n \in 1..Len(out) :
                LET size == Cardinality({m \in 1..Len(out) : out[m].group_id = out[n].group_id})
                IN  (options.consensus = "none" \/ size < options.quorum)
                        => out[n].found_info = parse_info(db[out[n].label].text, options)

\* C25: match_collecting_events run without --date-search, on an index built
\* with a method that exists, raises no exception: it goes through the labels
\* of its input to the end.
C25_AllLabelsProcessed ==
    (/\ options.script = "match_collecting_events"
     /\ ~options.date_search
     /\ options.method \in {1, 2})
        => pc \in {"matching", "done"} /\ lastError = ""

====
